---- MODULE Spec2Model ----
(***************************************************************************)
(* A model of the gameplay state machine of waitris: the Game of           *)
(* src/src/game/state.rs with its effects (src/src/game/effects.rs), the   *)
(* piece geometry (src/src/game/piece.rs), the board                       *)
(* (src/src/game/board.rs) and the command chunking                       *)
(* (src/src/commands/chunk.rs, src/src/commands/tokenize.rs).              *)
(*                                                                         *)
(* Glyphs are one-character strings.  "_" stands for the filler glyph      *)
(* U+2591, "B" for the solid bomb glyph U+2593; "#" and "?" are the        *)
(* garbage and infection glyphs of effects.rs.  A String of the program is *)
(* a sequence of glyphs.  Option<T> is a sequence of length 0 (None) or 1  *)
(* (Some).  A Cell is <<>> (Empty) or <<left, right>> (Filled).            *)
(***************************************************************************)
EXTENDS Integers, Sequences, FiniteSets, TLC

VARIABLES
    board,              \* Board.cells, row-major, BoardW*BoardH cells
    current,            \* Game.current: Piece
    game_over,          \* Game.game_over
    score,              \* Game.score
    lines_cleared,      \* Game.lines_cleared
    pending_clear,      \* Game.pending_clear: sequence of row indices
    clear_flash_frames, \* Game.clear_flash_frames
    lock_flash_cells,   \* Game.lock_flash_cells: sequence of <<x, y>>
    lock_flash_frames,  \* Game.lock_flash_frames
    piece_queue,        \* Game.piece_queue: sequence of QueuedPiece
    active_piece,       \* Game.active_piece
    active_run,         \* Game.active_run: Option<u64>
    active_runs,        \* Game.active_runs: run id -> CommandRun
    bombs,              \* Game.bombs
    current_is_bomb,    \* Game.current_is_bomb
    variety_meter,      \* Game.variety_meter
    last_cmd_identity,  \* Game.last_cmd_identity: Option<String>
    variety_streak,     \* Game.variety_streak
    events_left,        \* number of command events (or protocol lines) still to arrive
    last_op,            \* the operation that produced this state, with its inputs
    since_lock,         \* set by a lock, kept while only process_effects follows
    cmd_in,             \* harness: the text given (command, token or line)
    chunks_out,         \* chunking harness: command_to_chunks(cmd_in)
    channel,            \* the mpsc channel: events sent and not yet received
    sent,               \* every event tx.send has put on the channel, in order
    applied,            \* every event handle_command_event was called with, in order
    loop_pc             \* the position of run_loop in its iteration

vars == <<board, current, game_over, score, lines_cleared, pending_clear,
          clear_flash_frames, lock_flash_cells, lock_flash_frames, piece_queue,
          active_piece, active_run, active_runs, bombs, current_is_bomb,
          variety_meter, last_cmd_identity, variety_streak, events_left, last_op,
          since_lock, cmd_in, chunks_out, channel, sent, applied, loop_pc>>

(***************************************************************************)
(* Bounds of the model.                                                    *)
(***************************************************************************)
\* Board width and height (BOARD_W = 10 and BOARD_H = 20 in the program).
BoardW == 4
BoardH == 4
\* random_shape draws among the first NumShapes shapes of its table.
NumShapes == 1
\* Run ids of the command events are 0 .. MaxRunId.
MaxRunId == 0
\* At most MaxEvents command events arrive after Init.
MaxEvents == 2
\* Command events that arrive after the mid-session state of SpecBomb.
MaxBombEvents == 1
\* SpecEconomy: rounds of the session before Init, command events after it.
MaxRounds == 8
MaxEconomyEvents == 1
\* Command events of SpecRuns, whose ids are 0..MaxRunsId.
MaxRunsEvents == 3
MaxRunsId == 1
\* A run is regenerated up to cycle MaxCycle.
MaxCycle == 2
\* Commands of the chunking harness have at most MaxCmdLen characters.
MaxCmdLen == 4
\* The longest token given to chunk_token.
MaxTokenLen == 17
\* The longest queue given to the purge harness.
MaxQueueLen == 3
\* A line of the line harness has at most MaxRestLen characters after its prefix.
MaxRestLen == 4
\* The lines the line harness reads.
MaxLines == 1
\* The lines the listener reads while the game loop runs.
MaxLoopLines == 2

\* The lines the listener reads while the loop drains the channel.
MaxRepeatLines == 4

(***************************************************************************)
(* Program constants.                                                      *)
(***************************************************************************)
CHUNK_SIZE == 8
VARIETY_THRESH == 100
BOMB_CAP == 3

Filler == "_"
BombGlyph == "B"
GarbageCell == <<"#", Filler>>
InfectedCell == <<"?", Filler>>
Empty == <<>>

None == <<>>
Some(v) == <<v>>

IsFilled(c) == c # Empty

Min(a, b) == IF a < b THEN a ELSE b
Max(a, b) == IF a > b THEN a ELSE b

(***************************************************************************)
(* Command chunking.                                                       *)
(***************************************************************************)
IsQuote(ch) == ch = "\"" \/ ch = "'"
IsWhitespace(ch) == ch = " " \/ ch = "\t"

\* The loop of tokenize_command from character i on; tokens and buf are the
\* loop's accumulators.
RECURSIVE tokenize_from(_, _, _, _)
tokenize_from(cmd, i, tokens, buf) ==
    IF i > Len(cmd)
    THEN IF buf # <<>> THEN Append(tokens, buf) ELSE tokens
    ELSE IF IsQuote(cmd[i])
         THEN tokenize_from(cmd, i + 1, tokens, buf)
         ELSE IF IsWhitespace(cmd[i])
              THEN IF buf # <<>>
                   THEN tokenize_from(cmd, i + 1, Append(tokens, buf), <<>>)
                   ELSE tokenize_from(cmd, i + 1, tokens, buf)
              ELSE tokenize_from(cmd, i + 1, tokens, Append(buf, cmd[i]))

tokenize_command(cmd) == tokenize_from(cmd, 1, <<>>, <<>>)

\* Vec::resize(CHUNK_SIZE, filler) of a sequence shorter than CHUNK_SIZE.
PadTo(s, n) == [i \in 1..n |-> IF i <= Len(s) THEN s[i] ELSE Filler]

FillerChunk == [i \in 1..CHUNK_SIZE |-> Filler]

\* The while loop of chunk_token: drain CHUNK_SIZE characters at a time.
RECURSIVE chunk_loop(_, _)
\* A variant of the loop of chunk_token that does not pad the last chunk.
RECURSIVE chunk_loop_unpadded(_, _)
chunk_loop_unpadded(chars, res) ==
    IF chars = <<>>
    THEN res
    ELSE LET n == Min(CHUNK_SIZE, Len(chars))
         IN chunk_loop_unpadded(SubSeq(chars, n + 1, Len(chars)),
                                Append(res, SubSeq(chars, 1, n)))

chunk_loop(chars, res) ==
    IF chars = <<>>
    THEN res
    ELSE LET n == Min(CHUNK_SIZE, Len(chars))
             take == SubSeq(chars, 1, n)
             rest == SubSeq(chars, n + 1, Len(chars))
         IN chunk_loop(rest, Append(res, IF Len(take) < CHUNK_SIZE
                                         THEN PadTo(take, CHUNK_SIZE)
                                         ELSE take))

chunk_token(token) ==
    LET res == chunk_loop(token, <<>>)
    IN IF res = <<>> THEN <<FillerChunk>> ELSE res

RECURSIVE chunks_of_tokens(_, _, _)
chunks_of_tokens(tokens, i, chunks) ==
    IF i > Len(tokens)
    THEN chunks
    ELSE chunks_of_tokens(tokens, i + 1, chunks \o chunk_token(tokens[i]))

command_to_chunks(cmd) == chunks_of_tokens(tokenize_command(cmd), 1, <<>>)

chunk_to_payload(chunk) ==
    LET padded == IF Len(chunk) < CHUNK_SIZE THEN PadTo(chunk, CHUNK_SIZE) ELSE chunk
    IN SubSeq(padded, 1, CHUNK_SIZE)

command_identity(cmd) ==
    LET tokens == tokenize_command(cmd)
    IN IF tokens = <<>> THEN <<>> ELSE tokens[1]

(***************************************************************************)
(* Pieces.                                                                 *)
(***************************************************************************)
ShapeTable == <<"I", "O", "T", "S", "Z", "J", "L">>
Shapes == {ShapeTable[i] : i \in 1..Len(ShapeTable)}

\* The shapes random_shape can return.
RandomShapes == {ShapeTable[i] : i \in 1..Min(NumShapes, Len(ShapeTable))}

\* The x of Piece::with_payload: the 4-wide frame centred on the board
\* (3 on the program's board of width 10).
SpawnX == (BoardW - 4) \div 2

with_payload(shape, payload) ==
    [shape |-> shape, rotation |-> 0, x |-> SpawnX, y |-> 0, payload |-> payload]

OffsetTable ==
    [I |-> << << <<0,1>>, <<1,1>>, <<2,1>>, <<3,1>> >>,
              << <<2,0>>, <<2,1>>, <<2,2>>, <<2,3>> >>,
              << <<0,2>>, <<1,2>>, <<2,2>>, <<3,2>> >>,
              << <<1,0>>, <<1,1>>, <<1,2>>, <<1,3>> >> >>,
     O |-> << << <<1,0>>, <<2,0>>, <<1,1>>, <<2,1>> >>,
              << <<1,0>>, <<2,0>>, <<1,1>>, <<2,1>> >>,
              << <<1,0>>, <<2,0>>, <<1,1>>, <<2,1>> >>,
              << <<1,0>>, <<2,0>>, <<1,1>>, <<2,1>> >> >>,
     T |-> << << <<1,0>>, <<0,1>>, <<1,1>>, <<2,1>> >>,
              << <<1,0>>, <<1,1>>, <<2,1>>, <<1,2>> >>,
              << <<0,1>>, <<1,1>>, <<2,1>>, <<1,2>> >>,
              << <<1,0>>, <<0,1>>, <<1,1>>, <<1,2>> >> >>,
     S |-> << << <<1,0>>, <<2,0>>, <<0,1>>, <<1,1>> >>,
              << <<1,0>>, <<1,1>>, <<2,1>>, <<2,2>> >>,
              << <<1,1>>, <<2,1>>, <<0,2>>, <<1,2>> >>,
              << <<0,0>>, <<0,1>>, <<1,1>>, <<1,2>> >> >>,
     Z |-> << << <<0,0>>, <<1,0>>, <<1,1>>, <<2,1>> >>,
              << <<2,0>>, <<1,1>>, <<2,1>>, <<1,2>> >>,
              << <<0,1>>, <<1,1>>, <<1,2>>, <<2,2>> >>,
              << <<1,0>>, <<0,1>>, <<1,1>>, <<0,2>> >> >>,
     J |-> << << <<0,0>>, <<0,1>>, <<1,1>>, <<2,1>> >>,
              << <<1,0>>, <<2,0>>, <<1,1>>, <<1,2>> >>,
              << <<0,1>>, <<1,1>>, <<2,1>>, <<2,2>> >>,
              << <<1,0>>, <<1,1>>, <<0,2>>, <<1,2>> >> >>,
     L |-> << << <<2,0>>, <<0,1>>, <<1,1>>, <<2,1>> >>,
              << <<1,0>>, <<1,1>>, <<1,2>>, <<2,2>> >>,
              << <<0,1>>, <<1,1>>, <<2,1>>, <<0,2>> >>,
              << <<0,0>>, <<1,0>>, <<1,1>>, <<1,2>> >> >>]

shape_offsets(shape, rotation) == OffsetTable[shape][(rotation % 4) + 1]

\* payload.get(i) with the fallbacks of cells and cells_with_pairs
\* (i is the 0-based index of the program).
Glyph(payload, i, fallback) ==
    IF i < Len(payload) THEN payload[i + 1]
    ELSE IF payload # <<>> THEN payload[Len(payload)]
    ELSE fallback

\* Piece::cells: <<x, y, glyph>> per occupied cell.
cells(p) ==
    LET off == shape_offsets(p.shape, p.rotation)
    IN [i \in 1..4 |-> <<p.x + off[i][1], p.y + off[i][2], Glyph(p.payload, i - 1, "#")>>]

\* Piece::cells_with_pairs: <<x, y, <<left, right>>>> per occupied cell.
cells_with_pairs(p) ==
    LET off == shape_offsets(p.shape, p.rotation)
    IN [i \in 1..4 |->
          <<p.x + off[i][1], p.y + off[i][2],
            <<Glyph(p.payload, 2 * (i - 1), Filler),
              Glyph(p.payload, 2 * (i - 1) + 1, Filler)>> >>]

rotated(p) == [p EXCEPT !.rotation = (p.rotation + 1) % 4]

shifted(p, dx, dy) == [p EXCEPT !.x = p.x + dx, !.y = p.y + dy]

(***************************************************************************)
(* Board.                                                                  *)
(***************************************************************************)
\* Board::idx, 1-based.
idx(x, y) == y * BoardW + x + 1

\* Board::new
NewBoard == [i \in 1..(BoardW * BoardH) |-> Empty]

get(b, x, y) == b[idx(x, y)]

set(b, x, y, value) == [b EXCEPT ![idx(x, y)] = value]

RowFull(b, y) == \A x \in 0..(BoardW - 1) : IsFilled(get(b, x, y))

\* The rows of b that are fully filled, in ascending order.
RECURSIVE full_rows_from(_, _)
full_rows_from(b, y) ==
    IF y >= BoardH THEN <<>>
    ELSE (IF RowFull(b, y) THEN <<y>> ELSE <<>>) \o full_rows_from(b, y + 1)

full_rows(b) == full_rows_from(b, 0)

SeqContains(s, v) == \E i \in 1..Len(s) : s[i] = v

(***************************************************************************)
(* Game: the operations are operators on g, a record of the fields of      *)
(* Game; the random draws of an operation are its rnd argument.            *)
(***************************************************************************)
GameNew ==
    [board |-> NewBoard,
     current |-> with_payload("I", FillerChunk),
     game_over |-> FALSE,
     score |-> 0,
     lines_cleared |-> 0,
     pending_clear |-> <<>>,
     clear_flash_frames |-> 0,
     lock_flash_cells |-> <<>>,
     lock_flash_frames |-> 0,
     piece_queue |-> <<>>,
     active_piece |-> FALSE,
     active_run |-> None,
     active_runs |-> <<>>,
     bombs |-> 0,
     current_is_bomb |-> FALSE,
     variety_meter |-> 0,
     last_cmd_identity |-> None,
     variety_streak |-> 0]

\* A variant of the cell test of can_place that does not look at the cell.
CellInside(b, c) ==
    /\ c[1] >= 0
    /\ c[2] >= 0
    /\ c[1] < BoardW
    /\ c[2] < BoardH

CellPlaceable(b, c) ==
    /\ c[1] >= 0
    /\ c[2] >= 0
    /\ c[1] < BoardW
    /\ c[2] < BoardH
    /\ ~IsFilled(get(b, c[1], c[2]))

\* Game::can_place on the board b.
can_place_on(b, piece) == \A i \in 1..4 : CellPlaceable(b, cells(piece)[i])

can_place(g, piece) == can_place_on(g.board, piece)

InBoard(x, y) == x >= 0 /\ y >= 0 /\ x < BoardW /\ y < BoardH

\* The loop of lock_piece over the cells i.. of the piece: the board and
\* the lock-flash cells after it.
RECURSIVE lock_cells(_, _, _, _)
lock_cells(cs, i, b, flash) ==
    IF i > Len(cs) THEN [board |-> b, flash |-> flash]
    ELSE IF InBoard(cs[i][1], cs[i][2])
         THEN lock_cells(cs, i + 1, set(b, cs[i][1], cs[i][2], cs[i][3]),
                         Append(flash, <<cs[i][1], cs[i][2]>>))
         ELSE lock_cells(cs, i + 1, b, flash)

\* A variant of the area of apply_bomb_clear: the cells of the piece only.
bomb_area_own_cells(piece) ==
    {<<c[1], c[2]>> : c \in {cells(piece)[i] : i \in 1..4}}
    \cap ((0..(BoardW - 1)) \X (0..(BoardH - 1)))

\* The cells apply_bomb_clear empties: the 3x3 neighbourhoods, clipped to
\* the board, of the cells of the current piece.
bomb_area(piece) ==
    {<<c[1] + dx, c[2] + dy>> :
        c \in {cells(piece)[i] : i \in 1..4}, dx \in {-1, 0, 1}, dy \in {-1, 0, 1}}
    \cap ((0..(BoardW - 1)) \X (0..(BoardH - 1)))

apply_bomb_clear(g) ==
    LET area == bomb_area(g.current)
    IN [g EXCEPT !.board =
          [i \in 1..(BoardW * BoardH) |->
             IF \E c \in area : idx(c[1], c[2]) = i THEN Empty ELSE g.board[i]]]

\* The board right after lock_piece wrote the cells of the current piece.
locked_board(g) == lock_cells(cells_with_pairs(g.current), 1, g.board, <<>>).board

\* A variant of lock_piece whose clear flash lasts one frame.
lock_piece_one_frame(g) ==
    LET w == lock_cells(cells_with_pairs(g.current), 1, g.board, <<>>)
        rows == full_rows(w.board)
        g1 == [g EXCEPT !.board = w.board,
                        !.lock_flash_cells = w.flash,
                        !.lock_flash_frames = 1,
                        !.active_run = None,
                        !.active_piece = FALSE]
        g2 == IF rows # <<>>
              THEN [g1 EXCEPT !.pending_clear = rows, !.clear_flash_frames = 1]
              ELSE g1
    IN IF g2.current_is_bomb THEN apply_bomb_clear(g2) ELSE g2

\* A variant of lock_piece that leaves a countdown that is running as it
\* is.
lock_piece_keeps_countdown(g) ==
    LET w == lock_cells(cells_with_pairs(g.current), 1, g.board, <<>>)
        rows == full_rows(w.board)
        g1 == [g EXCEPT !.board = w.board,
                        !.lock_flash_cells = w.flash,
                        !.lock_flash_frames = 1,
                        !.active_run = None,
                        !.active_piece = FALSE]
        g2 == IF rows # <<>>
              THEN [g1 EXCEPT !.pending_clear = rows,
                              !.clear_flash_frames =
                                  IF g.pending_clear # <<>> THEN g.clear_flash_frames
                                  ELSE 2]
              ELSE g1
    IN IF g2.current_is_bomb THEN apply_bomb_clear(g2) ELSE g2

lock_piece(g) ==
    LET w == lock_cells(cells_with_pairs(g.current), 1, g.board, <<>>)
        rows == full_rows(w.board)
        g1 == [g EXCEPT !.board = w.board,
                        !.lock_flash_cells = w.flash,
                        !.lock_flash_frames = 1,
                        !.active_run = None,
                        !.active_piece = FALSE]
        g2 == IF rows # <<>>
              THEN [g1 EXCEPT !.pending_clear = rows, !.clear_flash_frames = 2]
              ELSE g1
    IN IF g2.current_is_bomb THEN apply_bomb_clear(g2) ELSE g2

\* A variant of move_current without the game_over test.
move_current_unguarded(g, dx, dy) ==
    LET next == shifted(g.current, dx, dy)
    IN IF can_place(g, next) THEN [g EXCEPT !.current = next] ELSE g

move_current(g, dx, dy) ==
    IF g.game_over THEN g
    ELSE LET next == shifted(g.current, dx, dy)
         IN IF can_place(g, next) THEN [g EXCEPT !.current = next] ELSE g

\* The value move_current returns.
move_current_ret(g, dx, dy) ==
    ~g.game_over /\ can_place(g, shifted(g.current, dx, dy))

rotate_current(g) ==
    IF g.game_over THEN g
    ELSE LET next == rotated(g.current)
         IN IF can_place(g, next) THEN [g EXCEPT !.current = next] ELSE g

rotate_current_ret(g) == ~g.game_over /\ can_place(g, rotated(g.current))

\* A variant of add_score that pays 100 per row.
add_score_per_row(g, cleared) == [g EXCEPT !.score = g.score + 100 * cleared]

add_score(g, cleared) ==
    LET add == CASE cleared = 1 -> 100
                 [] cleared = 2 -> 300
                 [] cleared = 3 -> 500
                 [] cleared = 4 -> 800
                 [] OTHER -> 0
    IN [g EXCEPT !.score = g.score + add]

\* The cells of the rows y.. of b that are not pending, row-major.
RECURSIVE kept_cells(_, _, _)
kept_cells(b, pending, y) ==
    IF y >= BoardH THEN <<>>
    ELSE (IF SeqContains(pending, y) THEN <<>>
          ELSE [x \in 1..BoardW |-> get(b, x - 1, y)])
         \o kept_cells(b, pending, y + 1)

\* A variant of perform_pending_clear that puts one empty row too many on
\* top of the kept ones.
perform_pending_clear_extra_row(g) ==
    LET cleared == Len(g.pending_clear)
    IN IF cleared = 0 THEN g
       ELSE LET kept == kept_cells(g.board, g.pending_clear, 0)
                new_cells == [i \in 1..((cleared + 1) * BoardW) |-> Empty] \o kept
                g1 == [g EXCEPT !.board = new_cells,
                                !.lines_cleared = g.lines_cleared + cleared]
            IN [add_score(g1, cleared) EXCEPT !.pending_clear = <<>>]

perform_pending_clear(g) ==
    LET cleared == Len(g.pending_clear)
    IN IF cleared = 0 THEN g
       ELSE LET kept == kept_cells(g.board, g.pending_clear, 0)
                new_cells == [i \in 1..(cleared * BoardW) |-> Empty] \o kept
                g1 == [g EXCEPT !.board = new_cells,
                                !.lines_cleared = g.lines_cleared + cleared]
            IN [add_score(g1, cleared) EXCEPT !.pending_clear = <<>>]

\* A variant of process_effects that counts the clear flash down without
\* performing the clear.
process_effects_without_clear(g) ==
    [g EXCEPT !.lock_flash_frames = Max(g.lock_flash_frames - 1, 0),
              !.clear_flash_frames = Max(g.clear_flash_frames - 1, 0)]

process_effects(g) ==
    LET g1 == IF g.lock_flash_frames > 0
              THEN [g EXCEPT !.lock_flash_frames = g.lock_flash_frames - 1]
              ELSE g
    IN IF g1.clear_flash_frames > 0
       THEN LET g2 == [g1 EXCEPT !.clear_flash_frames = g1.clear_flash_frames - 1]
            IN IF g2.clear_flash_frames = 0 /\ g2.pending_clear # <<>>
               THEN perform_pending_clear(g2)
               ELSE g2
       ELSE g1

(***************************************************************************)
(* Queue replenishment and spawning.  rnd.order is the order in which the  *)
(* HashMap iterates over the runs, rnd.shapes the shapes random_shape      *)
(* returns, in the order of the calls.                                     *)
(***************************************************************************)
QueuedPiece(run_id, cycle, piece, is_bomb) ==
    [run_id |-> run_id, cycle |-> cycle, piece |-> piece, is_bomb |-> is_bomb]

\* CommandRun::new
CommandRun(id, chunks, identity) ==
    [id |-> id, chunks |-> chunks, cycle |-> 0, active |-> TRUE, identity |-> identity]

\* A variant of next_cycle_pieces that leaves the cycle as it is.
next_cycle_pieces_same_cycle(run, shapes) ==
    [run |-> run,
     pieces |-> [i \in 1..Len(run.chunks) |->
                   with_payload(shapes[i], chunk_to_payload(run.chunks[i]))]]

\* CommandRun::next_cycle_pieces: the run with its cycle advanced and one
\* piece per chunk, the i-th with the shape shapes[i].
next_cycle_pieces(run, shapes) ==
    [run |-> [run EXCEPT !.cycle = run.cycle + 1],
     pieces |-> [i \in 1..Len(run.chunks) |->
                   with_payload(shapes[i], chunk_to_payload(run.chunks[i]))]]

make_bomb_piece == with_payload("O", [i \in 1..CHUNK_SIZE |-> BombGlyph])

ActiveIds(runs) == {k \in DOMAIN runs : runs[k].active}

\* The loop of ensure_queue over the runs order[i..]; used counts the
\* shapes drawn so far.
RECURSIVE regenerate(_, _, _, _, _)
regenerate(g, order, i, shapes, used) ==
    IF i > Len(order) THEN g
    ELSE LET run == g.active_runs[order[i]]
         IN IF run.active
            THEN LET n == Len(run.chunks)
                     r == next_cycle_pieces(run, [k \in 1..n |-> shapes[used + k]])
                     queued == [k \in 1..n |->
                                  QueuedPiece(run.id, r.run.cycle, r.pieces[k], FALSE)]
                 IN regenerate([g EXCEPT !.active_runs[order[i]] = r.run,
                                         !.piece_queue = g.piece_queue \o queued],
                               order, i + 1, shapes, used + n)
            ELSE regenerate(g, order, i + 1, shapes, used)

ensure_queue(g, rnd) ==
    IF g.piece_queue # <<>> THEN g
    ELSE LET g1 == regenerate(g, rnd.order, 1, rnd.shapes, 0)
         IN IF g1.piece_queue = <<>> /\ g1.bombs > 0
            THEN [g1 EXCEPT !.piece_queue =
                               <<QueuedPiece(0, 0, make_bomb_piece, TRUE)>>,
                            !.bombs = g1.bombs - 1]
            ELSE g1

spawn_next(g, rnd) ==
    LET g1 == ensure_queue(g, rnd)
    IN IF g1.piece_queue # <<>>
       THEN LET qp == Head(g1.piece_queue)
                g2 == [g1 EXCEPT !.piece_queue = Tail(g1.piece_queue),
                                 !.active_piece = TRUE,
                                 !.active_run = IF qp.is_bomb THEN None
                                                ELSE Some(qp.run_id),
                                 !.current_is_bomb = qp.is_bomb]
            IN IF can_place(g2, qp.piece)
               THEN [g2 EXCEPT !.current = qp.piece]
               ELSE [g2 EXCEPT !.game_over = TRUE]
       ELSE [g1 EXCEPT !.active_piece = FALSE,
                       !.active_run = None,
                       !.current_is_bomb = FALSE]

\* The QueuedPiece spawn_next pops, if any.
popped_by_spawn(g, rnd) ==
    LET g1 == ensure_queue(g, rnd)
    IN IF g1.piece_queue # <<>> THEN Some(Head(g1.piece_queue)) ELSE None

\* tick_gravity locks when its move down fails.
tick_locks(g) == ~g.game_over /\ g.active_piece /\ ~move_current_ret(g, 0, 1)

\* A variant of tick_gravity that leaves a piece that cannot move down
\* where it is.
tick_gravity_no_lock(g, rnd) ==
    IF g.game_over THEN g
    ELSE IF ~g.active_piece THEN g
    ELSE IF move_current_ret(g, 0, 1) THEN move_current(g, 0, 1)
    ELSE g

tick_gravity(g, rnd) ==
    IF g.game_over THEN g
    ELSE IF ~g.active_piece THEN g
    ELSE IF move_current_ret(g, 0, 1) THEN move_current(g, 0, 1)
    ELSE spawn_next(lock_piece(g), rnd)

\* while self.move_current(0, 1) {}
RECURSIVE drop_down(_)
drop_down(g) == IF move_current_ret(g, 0, 1) THEN drop_down(move_current(g, 0, 1)) ELSE g

hard_drop_locks(g) == ~g.game_over /\ g.active_piece

\* A variant of hard_drop without the loop that moves the piece down.
hard_drop_in_place(g, rnd) ==
    IF g.game_over THEN g
    ELSE IF ~g.active_piece THEN g
    ELSE spawn_next(lock_piece(g), rnd)

\* A variant of hard_drop without the test of game_over.
hard_drop_when_over(g, rnd) ==
    IF ~g.active_piece THEN g
    ELSE spawn_next(lock_piece(drop_down(g)), rnd)

hard_drop(g, rnd) ==
    IF g.game_over THEN g
    ELSE IF ~g.active_piece THEN g
    ELSE spawn_next(lock_piece(drop_down(g)), rnd)

\* Game::ghost_piece
RECURSIVE ghost_from(_, _)
ghost_from(g, ghost) ==
    IF can_place(g, shifted(ghost, 0, 1))
    THEN ghost_from(g, [ghost EXCEPT !.y = ghost.y + 1])
    ELSE ghost

\* A variant of ghost_piece without the loop.
ghost_piece_in_place(g) == g.current

ghost_piece(g) == ghost_from(g, g.current)

is_running(g) ==
    \/ g.active_piece
    \/ g.piece_queue # <<>>
    \/ \E k \in DOMAIN g.active_runs : g.active_runs[k].active

(***************************************************************************)
(* Effects.                                                                *)
(***************************************************************************)
\* A variant of apply_garbage_row that assigns the overflow test to
\* game_over instead of only setting it.
apply_garbage_row_assigning(g, hole) ==
    LET new_cells ==
            [i \in 1..(BoardW * BoardH) |->
               LET x == (i - 1) % BoardW
                   y == (i - 1) \div BoardW
               IN IF y < BoardH - 1 THEN get(g.board, x, y + 1)
                  ELSE IF x = hole THEN Empty ELSE GarbageCell]
        overflow == \E x \in 0..(BoardW - 1) : IsFilled(get(g.board, x, 0))
    IN [g EXCEPT !.board = new_cells, !.game_over = overflow]

\* A variant of apply_garbage_row whose destination index is y * width + x:
\* the rows stay where they are and row 0 is emptied.
apply_garbage_row_unshifted(g, hole) ==
    LET new_cells ==
            [i \in 1..(BoardW * BoardH) |->
               LET x == (i - 1) % BoardW
                   y == (i - 1) \div BoardW
               IN IF y = 0 THEN Empty
                  ELSE IF y < BoardH - 1 THEN get(g.board, x, y)
                  ELSE IF x = hole THEN Empty ELSE GarbageCell]
        overflow == \E x \in 0..(BoardW - 1) : IsFilled(get(g.board, x, 0))
    IN [g EXCEPT !.board = new_cells,
                 !.game_over = IF overflow THEN TRUE ELSE g.game_over]

\* apply_garbage_row with the hole column drawn by the rng.
apply_garbage_row(g, hole) ==
    LET new_cells ==
            [i \in 1..(BoardW * BoardH) |->
               LET x == (i - 1) % BoardW
                   y == (i - 1) \div BoardW
               IN IF y < BoardH - 1 THEN get(g.board, x, y + 1)
                  ELSE IF x = hole THEN Empty ELSE GarbageCell]
        overflow == \E x \in 0..(BoardW - 1) : IsFilled(get(g.board, x, 0))
    IN [g EXCEPT !.board = new_cells,
                 !.game_over = IF overflow THEN TRUE ELSE g.game_over]

FilledCells(b) ==
    {c \in (0..(BoardW - 1)) \X (0..(BoardH - 1)) : IsFilled(get(b, c[1], c[2]))}

INFECT_MAX == 5

\* A variant of apply_infection that writes the marker at (y, x) for the
\* chosen cell (x, y).
apply_infection_transposed(g, chosen) ==
    [g EXCEPT !.board =
        [i \in 1..(BoardW * BoardH) |->
           IF \E c \in chosen : idx(c[2], c[1]) = i THEN InfectedCell ELSE g.board[i]]]

\* apply_infection with the cells choose_multiple picked.
apply_infection(g, chosen) ==
    [g EXCEPT !.board =
        [i \in 1..(BoardW * BoardH) |->
           IF \E c \in chosen : idx(c[1], c[2]) = i THEN InfectedCell ELSE g.board[i]]]

\* The filled cells of b in row-major order.
RECURSIVE filled_from(_, _)
filled_from(b, i) ==
    IF i > BoardW * BoardH THEN <<>>
    ELSE (IF IsFilled(b[i]) THEN << <<(i - 1) % BoardW, (i - 1) \div BoardW>> >> ELSE <<>>)
         \o filled_from(b, i + 1)

\* Sets choose_multiple can pick on the board b: of its equally likely
\* picks of count cells, the first count and the last count filled cells.
InfectionChoices(b) ==
    LET filled == filled_from(b, 1)
        n == Len(filled)
        count == Min(n, INFECT_MAX)
    IN {{filled[i] : i \in 1..count}, {filled[i] : i \in (n - count + 1)..n}}

\* A variant of the loop of apply_variety without the cap on bombs.
RECURSIVE convert_bombs_uncapped(_)
convert_bombs_uncapped(g) ==
    IF g.variety_meter >= VARIETY_THRESH
    THEN convert_bombs_uncapped([g EXCEPT !.variety_meter = g.variety_meter - VARIETY_THRESH,
                                          !.bombs = g.bombs + 1])
    ELSE g

\* A variant of the loop of apply_variety that stops converting at the cap.
RECURSIVE convert_bombs_until_cap(_)
convert_bombs_until_cap(g) ==
    IF g.variety_meter >= VARIETY_THRESH /\ g.bombs < BOMB_CAP
    THEN convert_bombs_until_cap([g EXCEPT !.variety_meter = g.variety_meter - VARIETY_THRESH,
                                           !.bombs = g.bombs + 1])
    ELSE g

\* The while loop of apply_variety.
RECURSIVE convert_bombs(_)
convert_bombs(g) ==
    IF g.variety_meter >= VARIETY_THRESH
    THEN convert_bombs([g EXCEPT !.variety_meter = g.variety_meter - VARIETY_THRESH,
                                 !.bombs = Min(g.bombs + 1, BOMB_CAP)])
    ELSE g

\* A variant of apply_variety whose decay is not clamped at 0.
apply_variety_unclamped(g, identity, exit_code) ==
    LET same_as_last == g.last_cmd_identity = Some(identity)
        g1 == IF same_as_last
              THEN [g EXCEPT !.variety_meter = g.variety_meter - 5,
                             !.variety_streak = 0]
              ELSE [g EXCEPT !.variety_meter = g.variety_meter - 2,
                             !.variety_streak = g.variety_streak + 1]
        base == IF same_as_last THEN 0 ELSE 10 + 3 * Min(g1.variety_streak, 10)
        variety_points == IF exit_code # 0 THEN base \div 2 ELSE base
    IN convert_bombs([g1 EXCEPT !.variety_meter = g1.variety_meter + variety_points])

\* A variant of apply_variety that takes the points from the streak before
\* its increment.
apply_variety_old_streak(g, identity, exit_code) ==
    LET same_as_last == g.last_cmd_identity = Some(identity)
        g1 == IF same_as_last
              THEN [g EXCEPT !.variety_meter = Max(g.variety_meter - 5, 0),
                             !.variety_streak = 0]
              ELSE [g EXCEPT !.variety_meter = Max(g.variety_meter - 2, 0),
                             !.variety_streak = g.variety_streak + 1]
        base == IF same_as_last THEN 0 ELSE 10 + 3 * Min(g.variety_streak, 10)
        variety_points == IF exit_code # 0 THEN base \div 2 ELSE base
    IN convert_bombs([g1 EXCEPT !.variety_meter = g1.variety_meter + variety_points])

\* A variant of apply_variety that halves the points of a failed command
\* rounding up.
apply_variety_half_up(g, identity, exit_code) ==
    LET same_as_last == g.last_cmd_identity = Some(identity)
        g1 == IF same_as_last
              THEN [g EXCEPT !.variety_meter = Max(g.variety_meter - 5, 0),
                             !.variety_streak = 0]
              ELSE [g EXCEPT !.variety_meter = Max(g.variety_meter - 2, 0),
                             !.variety_streak = g.variety_streak + 1]
        base == IF same_as_last THEN 0 ELSE 10 + 3 * Min(g1.variety_streak, 10)
        variety_points == IF exit_code # 0 THEN (base + 1) \div 2 ELSE base
    IN convert_bombs([g1 EXCEPT !.variety_meter = g1.variety_meter + variety_points])

apply_variety(g, identity, exit_code) ==
    LET same_as_last == g.last_cmd_identity = Some(identity)
        g1 == IF same_as_last
              THEN [g EXCEPT !.variety_meter = Max(g.variety_meter - 5, 0),
                             !.variety_streak = 0]
              ELSE [g EXCEPT !.variety_meter = Max(g.variety_meter - 2, 0),
                             !.variety_streak = g.variety_streak + 1]
        base == IF same_as_last THEN 0 ELSE 10 + 3 * Min(g1.variety_streak, 10)
        variety_points == IF exit_code # 0 THEN base \div 2 ELSE base
    IN convert_bombs([g1 EXCEPT !.variety_meter = g1.variety_meter + variety_points])

(***************************************************************************)
(* Command events.                                                         *)
(***************************************************************************)
\* HashMap::insert
MapInsert(m, k, v) == [j \in (DOMAIN m) \cup {k} |-> IF j = k THEN v ELSE m[j]]

\* A variant of the retain of End that keeps only the pieces of other runs.
retain_other_runs(q, id) == SelectSeq(q, LAMBDA qp : qp.run_id # id)

\* A variant of the retain of End that keeps, of the run's pieces, those of
\* cycle 1 only.
retain_other_or_cycle_one(q, id) ==
    SelectSeq(q, LAMBDA qp : qp.run_id # id \/ qp.cycle = 1)

\* VecDeque::retain
RECURSIVE retain_other_or_first_cycle(_, _)
retain_other_or_first_cycle(q, id) ==
    IF q = <<>> THEN <<>>
    ELSE (IF Head(q).run_id # id \/ Head(q).cycle <= 1 THEN <<Head(q)>> ELSE <<>>)
         \o retain_other_or_first_cycle(Tail(q), id)

\* A variant of the Start branch that leaves last_cmd_identity to the End
\* events.
start_enqueue_unseeded(g, id, command, shapes) ==
    LET chunks == command_to_chunks(command)
        r == next_cycle_pieces(CommandRun(id, chunks, command_identity(command)), shapes)
        queued == [k \in 1..Len(r.pieces) |->
                     QueuedPiece(id, r.run.cycle, r.pieces[k], FALSE)]
    IN [g EXCEPT !.piece_queue = g.piece_queue \o queued,
                 !.active_runs = MapInsert(g.active_runs, id, r.run)]

\* handle_command_event(Start {id, command}) up to its call of spawn_next;
\* shapes are the shapes of the cycle-1 pieces.
start_enqueue(g, id, command, shapes) ==
    LET chunks == command_to_chunks(command)
        identity == command_identity(command)
        r == next_cycle_pieces(CommandRun(id, chunks, identity), shapes)
        queued == [k \in 1..Len(r.pieces) |->
                     QueuedPiece(id, r.run.cycle, r.pieces[k], FALSE)]
    IN [g EXCEPT !.piece_queue = g.piece_queue \o queued,
                 !.active_runs = MapInsert(g.active_runs, id, r.run),
                 !.last_cmd_identity =
                     IF g.last_cmd_identity = None THEN Some(identity)
                     ELSE g.last_cmd_identity]

\* handle_command_event(Start {id, command}); rnd are the draws of spawn_next.
handle_start(g, id, command, shapes, rnd) ==
    LET g1 == start_enqueue(g, id, command, shapes)
    IN IF ~g1.active_piece THEN spawn_next(g1, rnd) ELSE g1

\* A variant of the End branch that takes the empty identity for an id
\* without a run.
handle_end_default_identity(g, id, exit_code, hole, chosen) ==
    LET identity == IF id \in DOMAIN g.active_runs
                    THEN g.active_runs[id].identity ELSE <<>>
        g1 == IF id \in DOMAIN g.active_runs
              THEN [g EXCEPT !.active_runs[id].active = FALSE]
              ELSE g
        g2 == [g1 EXCEPT !.piece_queue = retain_other_or_first_cycle(g1.piece_queue, id)]
        g3 == IF exit_code # 0
              THEN apply_infection(apply_garbage_row(g2, hole), chosen)
              ELSE g2
    IN [apply_variety(g3, identity, exit_code) EXCEPT !.last_cmd_identity = Some(identity)]

\* handle_command_event(End {id, exit_code}); hole and chosen are the draws
\* of apply_garbage_row and apply_infection.
handle_end(g, id, exit_code, hole, chosen) ==
    LET identity == IF id \in DOMAIN g.active_runs
                    THEN Some(g.active_runs[id].identity) ELSE None
        g1 == IF id \in DOMAIN g.active_runs
              THEN [g EXCEPT !.active_runs[id].active = FALSE]
              ELSE g
        g2 == [g1 EXCEPT !.piece_queue = retain_other_or_first_cycle(g1.piece_queue, id)]
        g3 == IF exit_code # 0
              THEN apply_infection(apply_garbage_row(g2, hole), chosen)
              ELSE g2
    IN IF identity # None
       THEN [apply_variety(g3, identity[1], exit_code)
                EXCEPT !.last_cmd_identity = Some(identity[1])]
       ELSE g3

(***************************************************************************)
(* The state machine.                                                      *)
(***************************************************************************)
G ==
    [board |-> board,
     current |-> current,
     game_over |-> game_over,
     score |-> score,
     lines_cleared |-> lines_cleared,
     pending_clear |-> pending_clear,
     clear_flash_frames |-> clear_flash_frames,
     lock_flash_cells |-> lock_flash_cells,
     lock_flash_frames |-> lock_flash_frames,
     piece_queue |-> piece_queue,
     active_piece |-> active_piece,
     active_run |-> active_run,
     active_runs |-> active_runs,
     bombs |-> bombs,
     current_is_bomb |-> current_is_bomb,
     variety_meter |-> variety_meter,
     last_cmd_identity |-> last_cmd_identity,
     variety_streak |-> variety_streak]

\* The game after the step.
G_next ==
    [board |-> board',
     current |-> current',
     game_over |-> game_over',
     score |-> score',
     lines_cleared |-> lines_cleared',
     pending_clear |-> pending_clear',
     clear_flash_frames |-> clear_flash_frames',
     lock_flash_cells |-> lock_flash_cells',
     lock_flash_frames |-> lock_flash_frames',
     piece_queue |-> piece_queue',
     active_piece |-> active_piece',
     active_run |-> active_run',
     active_runs |-> active_runs',
     bombs |-> bombs',
     current_is_bomb |-> current_is_bomb',
     variety_meter |-> variety_meter',
     last_cmd_identity |-> last_cmd_identity',
     variety_streak |-> variety_streak']

Set(g) ==
    /\ board' = g.board
    /\ current' = g.current
    /\ game_over' = g.game_over
    /\ score' = g.score
    /\ lines_cleared' = g.lines_cleared
    /\ pending_clear' = g.pending_clear
    /\ clear_flash_frames' = g.clear_flash_frames
    /\ lock_flash_cells' = g.lock_flash_cells
    /\ lock_flash_frames' = g.lock_flash_frames
    /\ piece_queue' = g.piece_queue
    /\ active_piece' = g.active_piece
    /\ active_run' = g.active_run
    /\ active_runs' = g.active_runs
    /\ bombs' = g.bombs
    /\ current_is_bomb' = g.current_is_bomb
    /\ variety_meter' = g.variety_meter
    /\ last_cmd_identity' = g.last_cmd_identity
    /\ variety_streak' = g.variety_streak

StartsAs(g) ==
    /\ board = g.board
    /\ current = g.current
    /\ game_over = g.game_over
    /\ score = g.score
    /\ lines_cleared = g.lines_cleared
    /\ pending_clear = g.pending_clear
    /\ clear_flash_frames = g.clear_flash_frames
    /\ lock_flash_cells = g.lock_flash_cells
    /\ lock_flash_frames = g.lock_flash_frames
    /\ piece_queue = g.piece_queue
    /\ active_piece = g.active_piece
    /\ active_run = g.active_run
    /\ active_runs = g.active_runs
    /\ bombs = g.bombs
    /\ current_is_bomb = g.current_is_bomb
    /\ variety_meter = g.variety_meter
    /\ last_cmd_identity = g.last_cmd_identity
    /\ variety_streak = g.variety_streak

\* The record of an operation: its name, the id, exit code and command of
\* a command event, the QueuedPiece its spawn_next popped, and a count n:
\* the rows full right after its lock_piece wrote the cells, the pieces a
\* Start enqueued, the pieces an End purged, 1 or 0 for the true or false a
\* move or rotation returned (-1: none of these); was_over and
\* had_bombs are game_over and bombs when the operation was called.
Op(name, id, code, cmd, popped, n) ==
    [op |-> name, id |-> id, code |-> code, cmd |-> cmd, popped |-> popped, n |-> n,
     was_over |-> game_over, had_bombs |-> bombs]

PlainOp(name) == Op(name, -1, 0, None, None, -1)

RunIds == 0..MaxRunId
ExitCodes == {0, 1}
Moves == {<<-1, 0>>, <<1, 0>>, <<0, 1>>}
Commands == {<<>>, <<"a">>, <<"a", " ", "a">>}

Perms(S) ==
    {p \in [1..Cardinality(S) -> S] : \A v \in S : \E i \in 1..Cardinality(S) : p[i] = v}

RECURSIVE TotalChunks(_, _)
TotalChunks(runs, ids) ==
    IF ids = {} THEN 0
    ELSE LET k == CHOOSE k \in ids : TRUE
         IN Len(runs[k].chunks) + TotalChunks(runs, ids \ {k})

NoRnd == [order |-> <<>>, shapes |-> <<>>]

\* The draws spawn_next can make when called in g.
Rnd(g) ==
    IF g.piece_queue # <<>> THEN {NoRnd}
    ELSE LET ids == ActiveIds(g.active_runs)
         IN {[order |-> o, shapes |-> sh] :
                o \in Perms(ids),
                sh \in [1..TotalChunks(g.active_runs, ids) -> RandomShapes]}

\* The regeneration of spawn_next called in g stays within MaxCycle.
WithinCycles(g) ==
    \/ g.piece_queue # <<>>
    \/ \A k \in ActiveIds(g.active_runs) : g.active_runs[k].cycle < MaxCycle

Wire == <<channel, sent, applied, loop_pc>>

Harness == <<cmd_in, chunks_out, Wire>>

\* run_loop has just created the channel and is about to drain it.
WireIdle ==
    /\ channel = <<>>
    /\ sent = <<>>
    /\ applied = <<>>
    /\ loop_pc = "drain"

Init ==
    /\ StartsAs(GameNew)
    /\ events_left = MaxEvents
    /\ last_op = PlainOp("new")
    /\ since_lock = None
    /\ cmd_in = <<>>
    /\ chunks_out = command_to_chunks(<<>>)
    /\ WireIdle

\* The calls of the Game's operations, with what they leave in last_op and
\* since_lock; the actions below add what each specification leaves alone.
MoveBy(d) ==
    /\ Set(move_current(G, d[1], d[2]))
    /\ last_op' = Op("move", -1, 0, None, None,
                     IF move_current_ret(G, d[1], d[2]) THEN 1 ELSE 0)
    /\ since_lock' = None

MoveCurrent ==
    \E d \in Moves :
        /\ MoveBy(d)
        /\ UNCHANGED <<events_left, Harness>>

Rotate ==
    /\ Set(rotate_current(G))
    /\ last_op' = Op("rotate", -1, 0, None, None,
                     IF rotate_current_ret(G) THEN 1 ELSE 0)
    /\ since_lock' = None

RotateCurrent ==
    /\ Rotate
    /\ UNCHANGED <<events_left, Harness>>

\* What a locking operation leaves in since_lock: lines_cleared at the lock
\* and the number of rows full right after the cells were written.
LockObs(g) == Some([lines |-> g.lines_cleared, full |-> Len(full_rows(locked_board(g)))])

Tick ==
    LET l == lock_piece(G)
    IN /\ tick_locks(G) => WithinCycles(l)
       /\ \E rnd \in (IF tick_locks(G) THEN Rnd(l) ELSE {NoRnd}) :
             /\ Set(tick_gravity(G, rnd))
             /\ last_op' = IF tick_locks(G)
                           THEN Op("tick", -1, 0, None, popped_by_spawn(l, rnd),
                                   Len(full_rows(locked_board(G))))
                           ELSE PlainOp("tick")
       /\ since_lock' = IF tick_locks(G) THEN LockObs(G) ELSE None

TickGravity ==
    /\ Tick
    /\ UNCHANGED <<events_left, Harness>>

Drop ==
    LET d == drop_down(G)
        l == lock_piece(d)
    IN /\ hard_drop_locks(G) => WithinCycles(l)
       /\ \E rnd \in (IF hard_drop_locks(G) THEN Rnd(l) ELSE {NoRnd}) :
             /\ Set(hard_drop(G, rnd))
             /\ last_op' = IF hard_drop_locks(G)
                           THEN Op("drop", -1, 0, None, popped_by_spawn(l, rnd),
                                   Len(full_rows(locked_board(d))))
                           ELSE PlainOp("drop")
       /\ since_lock' = IF hard_drop_locks(G) THEN LockObs(d) ELSE None

HardDrop ==
    /\ Drop
    /\ UNCHANGED <<events_left, Harness>>

Effects ==
    /\ Set(process_effects(G))
    /\ last_op' = PlainOp("effects")
    /\ UNCHANGED since_lock

ProcessEffects ==
    /\ Effects
    /\ UNCHANGED <<events_left, Harness>>

\* handle_command_event called with Start { id, command }.
StartEvent(id, command) ==
    /\ \E shapes \in [1..Len(command_to_chunks(command)) -> RandomShapes] :
          LET e == start_enqueue(G, id, command, shapes)
          IN /\ ~e.active_piece => WithinCycles(e)
             /\ \E rnd \in (IF ~e.active_piece THEN Rnd(e) ELSE {NoRnd}) :
                   /\ Set(handle_start(G, id, command, shapes, rnd))
                   /\ last_op' = Op("start", id, 0, Some(command),
                                    IF ~e.active_piece
                                    THEN popped_by_spawn(e, rnd) ELSE None,
                                    Len(command_to_chunks(command)))
    /\ since_lock' = None

\* A Start event with an id of ids.
HandleStartOf(ids) ==
    /\ events_left > 0
    /\ \E id \in ids, command \in Commands : StartEvent(id, command)
    /\ events_left' = events_left - 1
    /\ UNCHANGED Harness

HandleStart == HandleStartOf(RunIds)

\* handle_command_event called with End { id, exit_code }.
EndEvent(id, exit_code) ==
    /\ \E hole \in (IF exit_code # 0 THEN 0..(BoardW - 1) ELSE {0}) :
          \E chosen \in (IF exit_code # 0
                         THEN InfectionChoices(apply_garbage_row(G, hole).board)
                         ELSE {{}}) :
             /\ Set(handle_end(G, id, exit_code, hole, chosen))
             /\ last_op' = Op("end", id, exit_code, None, None,
                              Len(piece_queue)
                              - Len(retain_other_or_first_cycle(piece_queue, id)))
    /\ since_lock' = None

\* An End event with an id of ids.
HandleEndOf(ids) ==
    /\ events_left > 0
    /\ \E id \in ids, exit_code \in ExitCodes : EndEvent(id, exit_code)
    /\ events_left' = events_left - 1
    /\ UNCHANGED Harness

HandleEnd == HandleEndOf(RunIds)

Next ==
    \/ MoveCurrent
    \/ RotateCurrent
    \/ TickGravity
    \/ HardDrop
    \/ ProcessEffects
    \/ HandleStart
    \/ HandleEnd

Spec == Init /\ [][Next]_vars

(***************************************************************************)
(* The chunking harness: command_to_chunks applied to every command text   *)
(* of at most MaxCmdLen characters.                                        *)
(***************************************************************************)
Alphabet == {"a", "b", " ", "'"}

CmdStrings == UNION {[1..n -> Alphabet] : n \in 0..MaxCmdLen}

ChunkCommand ==
    /\ \E c \in CmdStrings :
          /\ cmd_in' = c
          /\ chunks_out' = command_to_chunks(c)
    /\ last_op' = PlainOp("chunk")
    /\ Set(G)
    /\ UNCHANGED <<events_left, since_lock, Wire>>

NextChunks == ChunkCommand

SpecChunks == Init /\ [][NextChunks]_vars

(***************************************************************************)
(* chunk_token applied to the tokens of at most MaxTokenLen characters     *)
(* that end in any three letters after a run of "a".                       *)
(***************************************************************************)
Tokens ==
    {[i \in 1..n |-> IF i <= n - 3 THEN "a" ELSE tl[i - (n - 3)]] :
        n \in 3..MaxTokenLen, tl \in [1..3 -> {"a", "b", Filler}]}
    \cup UNION {[1..n -> {"a", "b", Filler}] : n \in 0..2}

ChunkToken ==
    /\ \E t \in Tokens :
          /\ cmd_in' = t
          /\ chunks_out' = chunk_token(t)
    /\ last_op' = PlainOp("token")
    /\ Set(G)
    /\ UNCHANGED <<events_left, since_lock, Wire>>

NextTokens == ChunkToken

SpecTokens == Init /\ [][NextTokens]_vars

(***************************************************************************)
(* The purge harness: the retain of the End branch applied to every queue  *)
(* of at most MaxQueueLen pieces of PurgePieces (a bomb piece, and pieces  *)
(* of the runs 0 and 1 in their cycles 1 and 2) and to the ids 0 and 1.    *)
(* cmd_in holds the queue given and chunks_out the queue retained.         *)
(***************************************************************************)
PurgePieces ==
    {QueuedPiece(0, 0, make_bomb_piece, TRUE)}
    \cup {QueuedPiece(id, cycle, with_payload("I", FillerChunk), FALSE) :
             id \in 0..1, cycle \in 1..2}

PurgeQueues == UNION {[1..n -> PurgePieces] : n \in 0..MaxQueueLen}

PurgeQueue ==
    /\ \E q \in PurgeQueues, id \in 0..1 :
          /\ cmd_in' = q
          /\ chunks_out' = retain_other_or_first_cycle(q, id)
          /\ last_op' = Op("purge", id, 0, None, None,
                           Len(q) - Len(retain_other_or_first_cycle(q, id)))
    /\ Set(G)
    /\ UNCHANGED <<events_left, since_lock, Wire>>

NextPurge == PurgeQueue

SpecPurge == Init /\ [][NextPurge]_vars

(***************************************************************************)
(* A session that has earned a bomb.  MidGame is the game after the        *)
(* events Start(0, "a"), then three times Start(0, ""), End(0, 0),         *)
(* Start(0, "a"), End(0, 0) (six End events of alternating identity: the   *)
(* meter passes VARIETY_THRESH at the sixth), and three times hard_drop    *)
(* and two process_effects, which leave the last of the four pieces        *)
(* falling, the queue empty and the run ended.                             *)
(***************************************************************************)
SessionStart(g, command) ==
    handle_start(g, 0, command, [i \in 1..Len(command_to_chunks(command)) |-> "I"], NoRnd)

SessionRound(g) ==
    handle_end(SessionStart(handle_end(SessionStart(g, <<>>), 0, 0, 0, {}), <<"a">>),
               0, 0, 0, {})

SessionDrop(g) == process_effects(process_effects(hard_drop(g, NoRnd)))

MidGame ==
    SessionDrop(SessionDrop(SessionDrop(
        SessionRound(SessionRound(SessionRound(SessionStart(GameNew, <<"a">>)))))))

InitBomb ==
    /\ StartsAs(MidGame)
    /\ events_left = MaxBombEvents
    /\ last_op = PlainOp("session")
    /\ since_lock = None
    /\ cmd_in = <<>>
    /\ chunks_out = command_to_chunks(<<>>)
    /\ WireIdle

SpecBomb == InitBomb /\ [][Next]_vars

(***************************************************************************)
(* Two concurrent runs: the command events carry the ids 0..MaxRunsId and  *)
(* the player only hard-drops (no frame passes between the drops).          *)
(***************************************************************************)
InitRuns ==
    /\ StartsAs(GameNew)
    /\ events_left = MaxRunsEvents
    /\ last_op = PlainOp("new")
    /\ since_lock = None
    /\ cmd_in = <<>>
    /\ chunks_out = command_to_chunks(<<>>)
    /\ WireIdle

StartOfRuns == HandleStartOf(0..MaxRunsId)

EndOfRuns == HandleEndOf(0..MaxRunsId)

NextRuns ==
    \/ HardDrop
    \/ StartOfRuns
    \/ EndOfRuns

SpecRuns == InitRuns /\ [][NextRuns]_vars

(***************************************************************************)
(* The variety economy.  SessionRounds(k) is the game after Start(0, "a")  *)
(* and k rounds of Start(0, ""), End(0, 0), Start(0, "a"), End(0, 0): the  *)
(* first piece is still falling, each round has queued one piece, and the  *)
(* 2k End events of alternating identity have fed the meter (the third     *)
(* bomb is earned in round 6, later rounds cross the threshold at the      *)
(* cap).  SpecEconomy starts in any of these games, or in one of them      *)
(* after the Start(0, "") of the next round; the player hard-drops and     *)
(* frames pass.                                                            *)
(***************************************************************************)
RECURSIVE SessionRounds(_)
SessionRounds(k) ==
    IF k = 0 THEN SessionStart(GameNew, <<"a">>)
    ELSE LET before == SessionRounds(k - 1)
         IN IF before.game_over THEN before ELSE SessionRound(before)

InitEconomy ==
    /\ \E k \in 0..MaxRounds :
          \/ StartsAs(SessionRounds(k))
          \/ StartsAs(SessionStart(SessionRounds(k), <<>>))
    /\ events_left = MaxEconomyEvents
    /\ last_op = PlainOp("session")
    /\ since_lock = None
    /\ cmd_in = <<>>
    /\ chunks_out = command_to_chunks(<<>>)
    /\ WireIdle

NextEconomy ==
    \/ HardDrop
    \/ ProcessEffects
    \/ HandleStart
    \/ HandleEnd

SpecEconomy == InitEconomy /\ [][NextEconomy]_vars

(***************************************************************************)
(* The socket protocol (src/src/io/mod.rs).  A line is a sequence of       *)
(* characters; " " is the only whitespace character of the lines drawn.    *)
(* Numerals are as Rust's from_str reads them: an optional sign ("+" for   *)
(* u64, "+" or "-" for i32) and at least one decimal digit; the lines      *)
(* drawn are too short for a numeral to overflow either type.              *)
(***************************************************************************)
Start(id, command) ==
    [kind |-> "start", id |-> id, command |-> command, exit_code |-> 0]

End(id, exit_code) ==
    [kind |-> "end", id |-> id, command |-> <<>>, exit_code |-> exit_code]

Digits == <<"0", "1", "2", "3", "4", "5", "6", "7", "8", "9">>

IsDigit(c) == \E i \in 1..Len(Digits) : Digits[i] = c

DigitValue(c) == (CHOOSE i \in 1..Len(Digits) : Digits[i] = c) - 1

AllDigits(s) == s # <<>> /\ \A i \in 1..Len(s) : IsDigit(s[i])

RECURSIVE digits_value(_, _)
digits_value(s, acc) ==
    IF s = <<>> THEN acc
    ELSE digits_value(Tail(s), acc * 10 + DigitValue(s[1]))

\* str::parse::<u64>
parse_u64(s) ==
    LET body == IF s # <<>> /\ s[1] = "+" THEN Tail(s) ELSE s
    IN IF AllDigits(body) THEN Some(digits_value(body, 0)) ELSE None

\* str::parse::<i32>
parse_i32(s) ==
    LET signed == s # <<>> /\ s[1] \in {"+", "-"}
        body == IF signed THEN Tail(s) ELSE s
    IN IF ~AllDigits(body) THEN None
       ELSE IF signed /\ s[1] = "-" THEN Some(0 - digits_value(body, 0))
       ELSE Some(digits_value(body, 0))

RECURSIVE trim_start(_)
trim_start(s) ==
    IF s # <<>> /\ s[1] = " " THEN trim_start(Tail(s)) ELSE s

RECURSIVE trim_end(_)
trim_end(s) ==
    IF s # <<>> /\ s[Len(s)] = " " THEN trim_end(SubSeq(s, 1, Len(s) - 1)) ELSE s

\* str::trim
trim(s) == trim_end(trim_start(s))

\* str::strip_prefix
strip_prefix(s, prefix) ==
    IF Len(s) >= Len(prefix) /\ SubSeq(s, 1, Len(prefix)) = prefix
    THEN Some(SubSeq(s, Len(prefix) + 1, Len(s)))
    ELSE None

\* s.splitn(2, ' '): the text before the first space, and the text after it
\* if there is a space.
splitn_2(s) ==
    IF \E i \in 1..Len(s) : s[i] = " "
    THEN LET i == CHOOSE i \in 1..Len(s) :
                     s[i] = " " /\ \A j \in 1..(i - 1) : s[j] # " "
         IN <<SubSeq(s, 1, i - 1), SubSeq(s, i + 1, Len(s))>>
    ELSE <<s>>

\* s.split_whitespace(): the maximal runs of non-whitespace characters.
RECURSIVE split_whitespace(_)
split_whitespace(s) ==
    LET t == trim_start(s)
    IN IF t = <<>> THEN <<>>
       ELSE LET parts == splitn_2(t)
            IN <<parts[1]>> \o (IF Len(parts) > 1 THEN split_whitespace(parts[2]) ELSE <<>>)

START_PREFIX == <<"S", "T", "A", "R", "T", " ">>

END_PREFIX == <<"E", "N", "D", " ">>

\* An exit code that reads an unparseable text as 1.
exit_code_or_one(code_str) ==
    LET parsed == parse_i32(code_str)
    IN IF parsed = None THEN 1 ELSE parsed[1]

\* code_str.parse().unwrap_or(0)
exit_code_of(code_str) ==
    LET parsed == parse_i32(code_str)
    IN IF parsed = None THEN 0 ELSE parsed[1]

parse_start(rest) ==
    LET parts == splitn_2(rest)
        cmd == IF Len(parts) > 1 THEN trim(parts[2]) ELSE <<>>
        id == parse_u64(parts[1])
    IN IF id = None THEN None ELSE Some(Start(id[1], cmd))

parse_end(rest) ==
    LET parts == split_whitespace(rest)
    IN IF parts = <<>> THEN None
       ELSE LET code_str == IF Len(parts) > 1 THEN parts[2] ELSE <<"0">>
                id == parse_u64(parts[1])
            IN IF id = None THEN None
               ELSE Some(End(id[1], exit_code_of(code_str)))

parse_command_line(text) ==
    LET line == trim(text)
        started == strip_prefix(line, START_PREFIX)
        ended == strip_prefix(line, END_PREFIX)
    IN IF started # None THEN parse_start(started[1])
       ELSE IF ended # None THEN parse_end(ended[1])
       ELSE None

\* handle_stream reads one line: the event it parses to, if any, is sent on
\* the channel; the send fails once run_loop has returned and dropped the
\* receiver.  The listener thread never touches the Game.
ReadLine(line) ==
    LET ev == parse_command_line(line)
    IN /\ events_left > 0
       /\ events_left' = events_left - 1
       /\ cmd_in' = line
       /\ IF ev # None /\ loop_pc # "done"
          THEN /\ channel' = Append(channel, ev[1])
               /\ sent' = Append(sent, ev[1])
          ELSE UNCHANGED <<channel, sent>>
       /\ Set(G)
       /\ UNCHANGED <<last_op, since_lock, chunks_out, applied, loop_pc>>

(***************************************************************************)
(* The line harness: the listener reads MaxLines lines, each a prefix of   *)
(* LinePrefixes followed by at most MaxRestLen characters of LineChars.    *)
(***************************************************************************)
LinePrefixes ==
    {START_PREFIX, END_PREFIX, <<" ">> \o END_PREFIX, <<"E", "N", "D">>,
     <<"S", "T", "A", "R", "T">>, <<"S", "T", "O", "P", " ">>, <<>>}

LineChars == {"0", "1", "a", "-", "+", " "}

Lines ==
    {p \o r : p \in LinePrefixes,
              r \in UNION {[1..n -> LineChars] : n \in 0..MaxRestLen}}

InitLines ==
    /\ StartsAs(GameNew)
    /\ events_left = MaxLines
    /\ last_op = PlainOp("new")
    /\ since_lock = None
    /\ cmd_in = <<>>
    /\ chunks_out = command_to_chunks(<<>>)
    /\ WireIdle

HandleStream == \E line \in Lines : ReadLine(line)

NextLines == HandleStream

SpecLines == InitLines /\ [][NextLines]_vars

(***************************************************************************)
(* The two threads of run_loop (src/src/app/mod.rs).  The listener thread  *)
(* reads MaxLoopLines lines of LoopLines at any moment; the game loop goes *)
(* through its iteration: drain (one try_recv per step, until the channel  *)
(* is found empty), draw, process_effects, input, gravity.  The loop ends  *)
(* on the key q or on an error of draw, poll or read.                      *)
(***************************************************************************)
LoopLines ==
    {START_PREFIX \o <<"0">>,
     START_PREFIX \o <<"0", " ", "a">>,
     END_PREFIX \o <<"0">>,
     END_PREFIX \o <<"0", " ", "1">>}

InitLoop ==
    /\ StartsAs(GameNew)
    /\ events_left = MaxLoopLines
    /\ last_op = PlainOp("new")
    /\ since_lock = None
    /\ cmd_in = <<>>
    /\ chunks_out = command_to_chunks(<<>>)
    /\ WireIdle

Listener == \E line \in LoopLines : ReadLine(line)

\* A receive that takes the event sent last.
try_recv_last(ch) == [ev |-> ch[Len(ch)], rest |-> SubSeq(ch, 1, Len(ch) - 1)]

\* rx.try_recv() on a channel ch that holds an event: the event received
\* and what stays on the channel.
try_recv(ch) == [ev |-> Head(ch), rest |-> Tail(ch)]

\* One turn of `for ev in rx.try_iter()` that finds an event.
LoopRecv ==
    /\ loop_pc = "drain"
    /\ channel # <<>>
    /\ LET got == try_recv(channel)
       IN /\ \/ got.ev.kind = "start" /\ StartEvent(got.ev.id, got.ev.command)
             \/ got.ev.kind = "end" /\ EndEvent(got.ev.id, got.ev.exit_code)
          /\ channel' = got.rest
          /\ applied' = Append(applied, got.ev)
    /\ UNCHANGED <<events_left, cmd_in, chunks_out, sent, loop_pc>>

\* try_iter finds the channel empty: the for loop ends.
LoopDrained ==
    /\ loop_pc = "drain"
    /\ channel = <<>>
    /\ loop_pc' = "draw"
    /\ Set(G)
    /\ UNCHANGED <<events_left, last_op, since_lock, cmd_in, chunks_out,
                   channel, sent, applied>>

\* terminal.draw(..)?: draw_game reads the Game; an error ends the loop.
LoopDraw ==
    /\ loop_pc = "draw"
    /\ loop_pc' \in {"effects", "done"}
    /\ Set(G)
    /\ UNCHANGED <<events_left, last_op, since_lock, cmd_in, chunks_out,
                   channel, sent, applied>>

LoopEffects ==
    /\ loop_pc = "effects"
    /\ Effects
    /\ loop_pc' = "input"
    /\ UNCHANGED <<events_left, cmd_in, chunks_out, channel, sent, applied>>

KeyCodes == {"Left", "Right", "Down", "Up", "Space", "Other"}

handle_input(code) ==
    \/ code = "Left" /\ MoveBy(<<-1, 0>>)
    \/ code = "Right" /\ MoveBy(<<1, 0>>)
    \/ code = "Down" /\ MoveBy(<<0, 1>>)
    \/ code = "Up" /\ Rotate
    \/ code = "Space" /\ Drop
    \/ code = "Other" /\ Set(G) /\ UNCHANGED <<last_op, since_lock>>

\* event::poll(50 ms)?, event::read()?: no event in time, an error, the key
\* q, or another key.
LoopInput ==
    /\ loop_pc = "input"
    /\ \/ /\ loop_pc' \in {"gravity", "done"}
          /\ Set(G)
          /\ UNCHANGED <<last_op, since_lock>>
       \/ /\ loop_pc' = "gravity"
          /\ \E code \in KeyCodes : handle_input(code)
    /\ UNCHANGED <<events_left, cmd_in, chunks_out, channel, sent, applied>>

\* tick_gravity if 450 ms have passed since the last tick.
LoopGravity ==
    /\ loop_pc = "gravity"
    /\ \/ Tick
       \/ Set(G) /\ UNCHANGED <<last_op, since_lock>>
    /\ loop_pc' = "drain"
    /\ UNCHANGED <<events_left, cmd_in, chunks_out, channel, sent, applied>>

RunLoop ==
    \/ LoopRecv
    \/ LoopDrained
    \/ LoopDraw
    \/ LoopEffects
    \/ LoopInput
    \/ LoopGravity

NextLoop ==
    \/ Listener
    \/ RunLoop

\* The loop's thread is always scheduled again (poll waits at most 50 ms):
\* the loop ends or takes steps again and again.  RunLoop is enabled
\* whenever the loop has not ended, so this is WF_vars(RunLoop).
LoopRuns == ([]<>(loop_pc = "done")) \/ ([]<><<RunLoop>>_vars)

SpecLoop == InitLoop /\ [][NextLoop]_vars /\ LoopRuns

(***************************************************************************)
(* Properties.  A step of an operation is recognised by the record it      *)
(* leaves in last_op; the record of a command event is new in every step   *)
(* because events_left decreases.                                          *)
(***************************************************************************)
IsStep(name) == last_op'.op = name /\ events_left' < events_left

\* C1: game_over is monotonic: no step of any operation (player action,
\* gravity tick, process_effects, command event) takes game_over from TRUE
\* back to FALSE.
C1_GameOverMonotonic == [][game_over => game_over']_vars

\* C1 witness: a command event was handled in a game that was over, and the
\* game is still over.
C1_Witness == game_over /\ last_op.was_over /\ last_op.op \in {"start", "end"}

\* C2: once game_over is TRUE every operation leaves the board, the score,
\* lines_cleared, the piece queue and the current piece as they are.
C2_FrozenAfterGameOver ==
    [][game_over => /\ board' = board
                    /\ score' = score
                    /\ lines_cleared' = lines_cleared
                    /\ piece_queue' = piece_queue
                    /\ current' = current]_vars

\* The current piece at the moment the spawn_next of the step is called.
CurrentBeforeSpawn == IF last_op'.op = "drop" THEN drop_down(G).current ELSE current

\* C3: when the spawn_next of a step pops a piece that cannot be placed,
\* game_over becomes TRUE, active_piece is FALSE after the call and current
\* is not replaced.
C3_BlockedSpawn ==
    [][(last_op'.op \in {"tick", "drop", "start"}
        /\ last_op'.popped # None
        /\ ~can_place_on(board', last_op'.popped[1].piece))
       => /\ game_over'
          /\ ~active_piece'
          /\ current' = CurrentBeforeSpawn]_vars

\* C4: in every reachable state with active_piece TRUE and game_over FALSE
\* the four cells of current are inside the board and over Empty cells.
C4_CurrentPlaced == (active_piece /\ ~game_over) => can_place(G, current)

\* A command of whitespace only or of quotes only (the empty one included).
BlankCommand(cmd) ==
    \/ \A i \in 1..Len(cmd) : IsWhitespace(cmd[i])
    \/ \A i \in 1..Len(cmd) : IsQuote(cmd[i])

\* C5: command_to_chunks never returns the empty sequence, and for an empty,
\* whitespace-only or quotes-only command it returns exactly one chunk of
\* CHUNK_SIZE filler glyphs.
C5_NeverEmpty ==
    last_op.op = "chunk" =>
        /\ chunks_out # <<>>
        /\ BlankCommand(cmd_in) => chunks_out = <<FillerChunk>>

\* The piece queued for the chunk of a Start with the id.
IsFirstCyclePiece(qp, id, chunk) ==
    /\ qp.run_id = id
    /\ qp.cycle = 1
    /\ qp.is_bomb = FALSE
    /\ qp.piece.payload = chunk_to_payload(chunk)
    /\ qp.piece.shape \in Shapes

\* C6: a Start appends one piece per chunk to the back of the queue, in
\* chunk order, tagged run_id = id, cycle = 1, is_bomb = FALSE, records the
\* run as active with cycle 1, and, if no piece was active, makes the piece
\* at the front of the queue the active piece in the same call.
C6_StartEnqueues ==
    [][IsStep("start") =>
         LET id == last_op'.id
             chunks == command_to_chunks(last_op'.cmd[1])
             old == Len(piece_queue)
             total == old + Len(chunks)
             \* the j-th piece of the queue after the append is qp
             IsQueued(qp, j) == IF j <= old THEN qp = piece_queue[j]
                                ELSE IsFirstCyclePiece(qp, id, chunks[j - old])
         IN /\ id \in DOMAIN active_runs'
            /\ active_runs'[id].active
            /\ active_runs'[id].cycle = 1
            /\ IF active_piece
               THEN /\ Len(piece_queue') = total
                    /\ \A j \in 1..total : IsQueued(piece_queue'[j], j)
               ELSE IF total = 0 THEN piece_queue' = <<>>
               ELSE /\ active_piece'
                    /\ IF old > 0 THEN current' = piece_queue[1].piece
                       ELSE current'.payload = chunk_to_payload(chunks[1])
                    /\ Len(piece_queue') = total - 1
                    /\ \A j \in 2..total : IsQueued(piece_queue'[j - 1], j)]_vars

\* C7: after an End with the id the run is not active, the queue holds no
\* piece with run_id = id and cycle > 1, and the queue is the old queue
\* without those pieces, the others in their order.
C7_EndPurges ==
    [][IsStep("end") =>
         LET id == last_op'.id
             Purged(qp) == qp.run_id = id /\ qp.cycle > 1
         IN /\ id \notin ActiveIds(active_runs')
            /\ \A i \in 1..Len(piece_queue') : ~Purged(piece_queue'[i])
            /\ piece_queue' = SelectSeq(piece_queue, LAMBDA qp : ~Purged(qp))]_vars

\* C7 witness: an End purged a piece and kept a piece of another run.
C7_Witness ==
    /\ last_op.op = "end"
    /\ last_op.n > 0
    /\ \E i \in 1..Len(piece_queue) : piece_queue[i].run_id # last_op.id

\* C8: an End with a nonzero exit code moves every row up by one (a cell is
\* the cell that was below it, or the infected marker over a filled one),
\* leaves exactly one Empty cell in the bottom row, and sets game_over
\* exactly when row 0 held a Filled cell; an End with exit code 0 does not
\* change the board.
C8_GarbageRow ==
    [][IsStep("end") =>
         IF last_op'.code # 0
         THEN /\ \A x \in 0..(BoardW - 1), y \in 1..(BoardH - 1) :
                    LET old == get(board, x, y)
                        new == get(board', x, y - 1)
                    IN new = old \/ (IsFilled(old) /\ new = InfectedCell)
              /\ Cardinality({x \in 0..(BoardW - 1) :
                                 ~IsFilled(get(board', x, BoardH - 1))}) = 1
              /\ game_over' = (game_over
                               \/ \E x \in 0..(BoardW - 1) : IsFilled(get(board, x, 0)))
         ELSE board' = board]_vars

\* C8 witness: an End with a nonzero exit code ended a game that was not
\* over, on a board whose rows it moved up.
C8_Witness ==
    /\ last_op.op = "end"
    /\ last_op.code # 0
    /\ ~last_op.was_over
    /\ game_over
    /\ \E x \in 0..(BoardW - 1) : IsFilled(get(board, x, BoardH - 2))

\* C9: after a lock followed only by process_effects until both flash
\* countdowns are 0, no row of the board is full and lines_cleared has
\* grown by the number of rows that were full right after the cells of the
\* piece were written.
C9_ClearAfterLock ==
    (since_lock # None /\ clear_flash_frames = 0 /\ lock_flash_frames = 0)
    => /\ full_rows(board) = <<>>
       /\ lines_cleared = since_lock[1].lines + since_lock[1].full

\* C10: pending_clear non-empty implies clear_flash_frames > 0, and the step
\* that brings clear_flash_frames to 0 leaves pending_clear empty.
C10_PendingFlash ==
    /\ [](pending_clear # <<>> => clear_flash_frames > 0)
    /\ [][(clear_flash_frames > 0 /\ clear_flash_frames' = 0)
          => pending_clear' = <<>>]_vars

\* C10 witness: a lock that completed rows, then process_effects until the
\* clear flash ran out.
C10_Witness ==
    /\ since_lock # None
    /\ since_lock[1].full > 0
    /\ last_op.op = "effects"
    /\ clear_flash_frames = 0
    /\ pending_clear = <<>>

\* C11: in every reachable state 0 <= bombs <= BOMB_CAP.
C11_BombsInRange == 0 <= bombs /\ bombs <= BOMB_CAP

\* C11 witness: the spawn of a hard drop dispensed the last bomb.
C11_Witness ==
    /\ last_op.op = "drop"
    /\ last_op.popped # None
    /\ last_op.popped[1].is_bomb
    /\ last_op.had_bombs = 1
    /\ bombs = 0

\* C12: in every reachable state 0 <= variety_meter < VARIETY_THRESH.
C12_MeterInRange == 0 <= variety_meter /\ variety_meter < VARIETY_THRESH

\* C12 witness: an End repeated the last identity with the meter at the
\* bottom.
C12_Witness ==
    /\ last_op.op = "end"
    /\ variety_streak = 0
    /\ variety_meter = 0
    /\ last_cmd_identity = Some(<<"a">>)

\* C13: the cell sequence of the board always has BoardW * BoardH entries.
C13_BoardSize == Len(board) = BoardW * BoardH

\* C13 witness: a garbage row with infection was injected after a deferred
\* clear had been performed on this board.
C13_Witness ==
    /\ last_op.op = "end"
    /\ last_op.code # 0
    /\ lines_cleared > MidGame.lines_cleared
    /\ bombs = 0

\* The step is an End that calls apply_variety: the run of the id is known.
IsVarietyStep == IsStep("end") /\ last_op'.id \in DOMAIN active_runs

\* The identity of the run of the End of the step equals last_cmd_identity.
SameAsLast == last_cmd_identity = Some(active_runs[last_op'.id].identity)

\* The meter after the decay and the award of the End of the step, before
\* any conversion into bombs.
AwardTotal ==
    IF SameAsLast THEN Max(variety_meter - 5, 0)
    ELSE LET points == 10 + 3 * Min(variety_streak + 1, 10)
         IN Max(variety_meter - 2, 0)
            + (IF last_op'.code # 0 THEN points \div 2 ELSE points)

\* C14: at an End with exit code 0, a repeated identity sets the streak to
\* 0 and takes 5 from the meter (not below 0) without points; a different
\* identity adds 1 to the streak, takes 2 from the meter (not below 0) and
\* adds 10 + 3 * min(streak, 10) with the streak after the increment (the
\* meter holds this total less the multiples of VARIETY_THRESH converted).
C14_VarietyAward ==
    [][(IsVarietyStep /\ last_op'.code = 0) =>
         IF SameAsLast
         THEN /\ variety_streak' = 0
              /\ variety_meter' = Max(variety_meter - 5, 0)
              /\ bombs' = bombs
         ELSE /\ variety_streak' = variety_streak + 1
              /\ variety_meter' =
                   (Max(variety_meter - 2, 0) + 10 + 3 * Min(variety_streak', 10))
                   % VARIETY_THRESH]_vars

\* C14 witness: an End with exit code 0 raised a streak that is past 10.
C14_Witness ==
    /\ last_op.op = "end"
    /\ last_op.code = 0
    /\ variety_streak > 10
    /\ variety_meter >= 38

\* C15 as stated: a total at or above VARIETY_THRESH leaves bombs at
\* min(bombs + floor(total / 100), BOMB_CAP) and the meter at total mod 100,
\* or at 0 if the cap stopped the conversion.
C15_ConversionAsStated ==
    [][(IsVarietyStep /\ AwardTotal >= VARIETY_THRESH) =>
         /\ bombs' = Min(bombs + AwardTotal \div VARIETY_THRESH, BOMB_CAP)
         /\ variety_meter' =
              IF bombs + AwardTotal \div VARIETY_THRESH > BOMB_CAP THEN 0
              ELSE AwardTotal % VARIETY_THRESH]_vars

\* C15: a total at or above VARIETY_THRESH leaves bombs at
\* min(bombs + floor(total / 100), BOMB_CAP) and the meter at total mod 100,
\* also when the cap stopped the bomb count.
C15_Conversion ==
    [][(IsVarietyStep /\ AwardTotal >= VARIETY_THRESH) =>
         /\ bombs' = Min(bombs + AwardTotal \div VARIETY_THRESH, BOMB_CAP)
         /\ variety_meter' = AwardTotal % VARIETY_THRESH]_vars

\* C15 witness: an End crossed the threshold with bombs at the cap.
C15_Witness ==
    /\ last_op.op = "end"
    /\ last_op.had_bombs = BOMB_CAP
    /\ bombs = BOMB_CAP
    /\ variety_streak >= 10
    /\ variety_meter < 18

\* The pieces can_place is asked about in a state: every shape in every
\* rotation, at and around the position of current.
ProbePieces ==
    {[current EXCEPT !.shape = sh, !.rotation = r, !.x = current.x + d[1],
                     !.y = current.y + d[2]] :
        sh \in Shapes, r \in 0..3, d \in Moves \cup {<<0, 0>>, <<0, -1>>}}

\* Every one of the four cells of p is inside the board and over an Empty
\* cell of it.
AllCellsFree(p) ==
    \A i \in 1..4 :
        LET x == p.x + OffsetTable[p.shape][p.rotation + 1][i][1]
            y == p.y + OffsetTable[p.shape][p.rotation + 1][i][2]
        IN /\ x >= 0 /\ y >= 0 /\ x < BoardW /\ y < BoardH
           /\ board[y * BoardW + x + 1] = Empty

\* C16: can_place(piece) is true exactly when every one of the four cells
\* of the piece has x >= 0, y >= 0, x < width, y < height and lies over an
\* Empty cell.
C16_CanPlace == \A p \in ProbePieces : can_place(G, p) <=> AllCellsFree(p)

\* Every cell of p is inside the board.
AllCellsInside(p) ==
    \A i \in 1..4 :
        LET x == p.x + OffsetTable[p.shape][p.rotation + 1][i][1]
            y == p.y + OffsetTable[p.shape][p.rotation + 1][i][2]
        IN x >= 0 /\ y >= 0 /\ x < BoardW /\ y < BoardH

\* C16 witness: among the pieces asked about one is accepted, one is
\* rejected only for a Filled cell, one has a cell above the board and one
\* a cell left of it.
C16_Witness ==
    /\ \E p \in ProbePieces : can_place(G, p)
    /\ \E p \in ProbePieces : AllCellsInside(p) /\ ~can_place(G, p)
    /\ \E p \in ProbePieces : p.y < 0 /\ p.shape = "O" /\ ~can_place(G, p)
    /\ \E p \in ProbePieces : p.x < 0 /\ p.shape = "J" /\ p.rotation = 0
                              /\ ~can_place(G, p)

RECURSIVE Flatten(_)
Flatten(cs) == IF cs = <<>> THEN <<>> ELSE Head(cs) \o Flatten(Tail(cs))

\* C18: for a token of length L chunk_token returns max(1, ceil(L / 8))
\* chunks of exactly CHUNK_SIZE characters whose concatenation is the token
\* followed by filler glyphs only; when L mod 8 # 0 the last chunk ends in
\* 8 - (L mod 8) filler glyphs.
C18_ChunkToken ==
    last_op.op = "token" =>
        LET L == Len(cmd_in)
            n == Len(chunks_out)
        IN /\ n = Max(1, (L + CHUNK_SIZE - 1) \div CHUNK_SIZE)
           /\ \A i \in 1..n : Len(chunks_out[i]) = CHUNK_SIZE
           /\ Flatten(chunks_out)
                = cmd_in \o [i \in 1..(n * CHUNK_SIZE - L) |-> Filler]
           /\ L % CHUNK_SIZE # 0 =>
                 \A i \in ((L % CHUNK_SIZE) + 1)..CHUNK_SIZE : chunks_out[n][i] = Filler

\* C18 witness: a token of more than two chunks whose last chunk is padded.
C18_Witness ==
    /\ last_op.op = "token"
    /\ Len(cmd_in) > 2 * CHUNK_SIZE
    /\ Len(chunks_out) = 3
    /\ chunks_out[3][1] = "b"

\* C19: command events cross from the listener thread to the game loop
\* through the one channel, whatever the interleaving of the two threads:
\* the events sent are, in order, the events already applied followed by the
\* events still on the channel (none is lost, repeated or overtaken); an
\* event is applied only by a step of the drain at the start of an iteration
\* (the loop is at its drain before and after the step, so before that
\* iteration's draw, process_effects, input and gravity), that step applies
\* the oldest event on the channel and it is the call of
\* handle_command_event with that event; and while the loop runs every
\* event sent is eventually applied.
C19_ChannelDelivery ==
    /\ [](sent = applied \o channel)
    /\ [][applied' # applied =>
            /\ loop_pc = "drain" /\ loop_pc' = "drain"
            /\ channel # <<>>
            /\ applied' = Append(applied, Head(channel))
            /\ last_op'.op = Head(channel).kind
            /\ last_op'.id = Head(channel).id
            /\ last_op'.code = Head(channel).exit_code]_vars
    /\ [][last_op' # last_op /\ last_op'.op \in {"start", "end"}
            => applied' # applied]_vars
    /\ \A n \in 1..MaxLoopLines :
          (Len(sent) >= n) ~> (Len(applied) >= n \/ loop_pc = "done")

\* C19 witness: two events were sent, a Start and then an End, and the drain
\* has just applied the second, after the first.
C19_Witness ==
    /\ Len(applied) = 2
    /\ applied = sent
    /\ applied[1].kind = "start"
    /\ applied[2].kind = "end"
    /\ loop_pc = "drain"
    /\ last_op.op = "end"
    /\ ActiveIds(active_runs) = {}

\* The whitespace-separated fields of a protocol line, and the form
\* `START <id> ...` or `END <id> ...` with <id> a non-negative integer.
Fields(text) == split_whitespace(text)

IsProtocolLine(text) ==
    /\ Len(Fields(text)) >= 2
    /\ Fields(text)[1] \in {<<"S", "T", "A", "R", "T">>, <<"E", "N", "D">>}
    /\ parse_u64(Fields(text)[2]) # None

\* An END line of that form whose exit code is absent or unparseable.
IsEndWithoutCode(text) ==
    /\ IsProtocolLine(text)
    /\ Fields(text)[1] = <<"E", "N", "D">>
    /\ Len(Fields(text)) >= 3 => parse_i32(Fields(text)[3]) = None

\* C20: a line read by the listener that is neither `START <id> ...` nor
\* `END <id> ...` with <id> parsing as a non-negative integer puts no event
\* on the channel and leaves the Game as it was; an END line whose exit code
\* is absent or unparseable sends the event End with that id and exit code 0.
C20_MalformedLines ==
    [][events_left' < events_left =>
         /\ ~IsProtocolLine(cmd_in') =>
               sent' = sent /\ channel' = channel /\ G' = G
         /\ IsEndWithoutCode(cmd_in') =>
               /\ sent' = Append(sent, End(parse_u64(Fields(cmd_in')[2])[1], 0))
               /\ channel' = Append(channel, End(parse_u64(Fields(cmd_in')[2])[1], 0))]_vars

\* C20 witness: the listener has read an END line for run 1 whose third
\* field is not a numeral, and has sent End { id: 1, exit_code: 0 }.
C20_Witness ==
    /\ events_left < MaxLines
    /\ Len(Fields(cmd_in)) = 3
    /\ Fields(cmd_in)[1] = <<"E", "N", "D">>
    /\ parse_i32(Fields(cmd_in)[3]) = None
    /\ sent = <<End(1, 0)>>
    /\ channel = sent

\* C21: a bomb piece is dispensed (bombs decreases) only by the spawn_next of
\* a step, with the queue empty and no run marked active; the one piece
\* enqueued, and popped by the same spawn_next, is the bomb piece with
\* is_bomb TRUE and run_id 0, and bombs decreases by exactly 1.
C21_BombDispense ==
    [][bombs' < bombs =>
         /\ last_op'.op \in {"tick", "drop", "start"}
         /\ piece_queue = <<>>
         /\ ActiveIds(active_runs') = {}
         /\ last_op'.popped = Some(QueuedPiece(0, 0, make_bomb_piece, TRUE))
         /\ piece_queue' = <<>>
         /\ bombs' = bombs - 1]_vars

\* The step calls spawn_next: a tick or a hard drop that locks, or a Start
\* that finds no piece active.
SpawnsNext ==
    \/ last_op'.op = "tick" /\ tick_locks(G)
    \/ last_op'.op = "drop" /\ hard_drop_locks(G)
    \/ IsStep("start") /\ ~active_piece

\* C22: whenever spawn_next runs while at least one run is marked active it
\* pops a piece from the queue and leaves active_piece TRUE (or game_over
\* set), and the game is never idle (no active piece, not over) while a run
\* is marked active.
C22_LiveRunFeeds ==
    /\ [][(SpawnsNext /\ ActiveIds(active_runs') # {}) =>
             /\ last_op'.popped # None
             /\ (active_piece' \/ game_over')]_vars
    /\ [](ActiveIds(active_runs) # {} => (active_piece \/ game_over))

\* The queue and the runs at the moment the spawn_next of the step calls
\* ensure_queue: a lock leaves both alone, a Start has appended its pieces
\* and inserted its run with cycle 1.
QueueLenBeforeSpawn ==
    IF last_op'.op = "start"
    THEN Len(piece_queue) + Len(command_to_chunks(last_op'.cmd[1]))
    ELSE Len(piece_queue)

RunsBeforeSpawn ==
    IF last_op'.op = "start"
    THEN MapInsert(active_runs, last_op'.id,
                   [CommandRun(last_op'.id, command_to_chunks(last_op'.cmd[1]),
                               command_identity(last_op'.cmd[1]))
                       EXCEPT !.cycle = 1])
    ELSE active_runs

\* The queue right after ensure_queue, before spawn_next popped its front.
QueueAfterEnsure == last_op'.popped \o piece_queue'

\* C23: ensure_queue does nothing when the queue is non-empty (the runs are
\* as they were and the queue only loses the piece popped); when the queue
\* is empty the cycle of every active run grows by exactly 1, the queue
\* receives for each active run one piece per chunk, in chunk order, tagged
\* with the run's id and new cycle and carrying the payload of the chunk
\* (the same in every cycle), and nothing else but a bomb; inactive runs are
\* not regenerated and keep their cycle.
C23_EnsureQueue ==
    [][SpawnsNext =>
         LET runs == RunsBeforeSpawn
             q == QueueAfterEnsure
             OfRun(k) == SelectSeq(q, LAMBDA qp : ~qp.is_bomb /\ qp.run_id = k)
         IN IF QueueLenBeforeSpawn > 0
            THEN /\ active_runs' = runs
                 /\ Len(q) = QueueLenBeforeSpawn
                 /\ bombs' = bombs
            ELSE /\ DOMAIN active_runs' = DOMAIN runs
                 /\ \A k \in DOMAIN runs :
                       IF runs[k].active
                       THEN /\ active_runs'[k] = [runs[k] EXCEPT !.cycle = runs[k].cycle + 1]
                            /\ Len(OfRun(k)) = Len(runs[k].chunks)
                            /\ \A i \in 1..Len(OfRun(k)) :
                                  /\ OfRun(k)[i].cycle = runs[k].cycle + 1
                                  /\ OfRun(k)[i].piece.payload
                                       = chunk_to_payload(runs[k].chunks[i])
                                  /\ OfRun(k)[i].piece.shape \in Shapes
                       ELSE /\ active_runs'[k] = runs[k]
                            /\ OfRun(k) = <<>>
                 /\ \A i \in 1..Len(q) : q[i].is_bomb \/ q[i].run_id \in DOMAIN runs]_vars

\* C23 witness: a hard drop found the queue empty with two runs active;
\* both were regenerated into cycle 2, one piece was popped and the piece of
\* the other run waits in the queue.
C23_Witness ==
    /\ last_op.op = "drop"
    /\ last_op.popped # None
    /\ last_op.popped[1].cycle = 2
    /\ \E i \in 1..Len(piece_queue) :
          /\ piece_queue[i].cycle = 2
          /\ piece_queue[i].run_id # last_op.popped[1].run_id
    /\ \A k \in DOMAIN active_runs : active_runs[k].active /\ active_runs[k].cycle = 2
    /\ Cardinality(DOMAIN active_runs) = 2

\* The loop has applied an event of the kind for the run id.
Handled(kind, id) ==
    \E i \in 1..Len(applied) : applied[i].kind = kind /\ applied[i].id = id

\* The pieces of the run id that exist in the game: queued or falling.
PiecesOfRun(id) ==
    Len(SelectSeq(piece_queue, LAMBDA qp : ~qp.is_bomb /\ qp.run_id = id))
    + (IF active_piece /\ active_run = Some(id) THEN 1 ELSE 0)

\* C24: for every run id, once both its Start and its End have been handled,
\* in either order of arrival, the run is marked inactive, and from then on
\* no step regenerates it: its cycle stays and no piece of it is added.
C24_EndedRunStaysEnded ==
    /\ [](\A id \in RunIds :
            (Handled("start", id) /\ Handled("end", id)) =>
                id \in DOMAIN active_runs /\ ~active_runs[id].active)
    /\ [][\A id \in RunIds :
            (Handled("start", id) /\ Handled("end", id) /\ applied' = applied) =>
                /\ active_runs'[id].cycle = active_runs[id].cycle
                /\ PiecesOfRun(id)' <= PiecesOfRun(id)]_vars

\* tick_gravity called again and again, with no other operation in between,
\* until the call that locks the piece; rnd are the draws of that call.
RECURSIVE TickUntilLock(_, _)
TickUntilLock(g, rnd) ==
    IF tick_locks(g) THEN tick_gravity(g, rnd)
    ELSE TickUntilLock(tick_gravity(g, NoRnd), rnd)

\* C25: from a state with an active piece and game_over FALSE, hard_drop
\* leaves the game that tick_gravity, called until the piece locks, leaves
\* for some draws of the regeneration: every field is the same (board,
\* lock-flash cells and frames, pending_clear, counters, queue tags), only
\* the random shapes of regenerated pieces can differ.
C25_HardDropIsGravity ==
    [][(last_op'.op = "drop" /\ active_piece /\ ~game_over) =>
         \E rnd \in Rnd(lock_piece(drop_down(G))) : G_next = TickUntilLock(G, rnd)]_vars

\* C25 witness: a hard drop took a piece that could still fall down to the
\* stack, where it completed a row, and the next piece was spawned.
C25_Witness ==
    /\ last_op.op = "drop"
    /\ last_op.n > 0
    /\ last_op.popped # None
    /\ pending_clear # <<>>
    /\ \E i \in 1..Len(lock_flash_cells) : lock_flash_cells[i][2] = BoardH - 1
    /\ active_piece
    /\ ~game_over

\* The step is a tick or a hard drop that locks the piece.
Locks ==
    \/ last_op'.op = "tick" /\ tick_locks(G)
    \/ last_op'.op = "drop" /\ hard_drop_locks(G)

\* Row y of the board b, and the rows of b as a sequence from the top.
Row(b, y) == [x \in 1..BoardW |-> b[y * BoardW + x]]

Rows(b) == [y \in 1..BoardH |-> Row(b, y - 1)]

EmptyRow == [x \in 1..BoardW |-> Empty]

\* The rows of b without the rows listed in pending, under Len(pending)
\* empty rows.
WithoutRows(b, pending) ==
    LET kept == SelectSeq([y \in 1..BoardH |-> y - 1],
                          LAMBDA y : ~SeqContains(pending, y))
    IN [k \in 1..Len(pending) |-> EmptyRow] \o [k \in 1..Len(kept) |-> Row(b, kept[k])]

\* Row y is full once the cells of the locking piece (the lock-flash cells
\* of the next state) are written on the board.
FullAfterWrite(y) ==
    \A x \in 0..(BoardW - 1) :
        IsFilled(get(board, x, y))
        \/ \E i \in 1..Len(lock_flash_cells') : lock_flash_cells'[i] = <<x, y>>

\* C26: line clearing is deferred by two frames.  A lock that completes rows
\* removes no row itself (a cell changes only by being written by the
\* piece, or emptied by the bomb; lines_cleared and score stay) and stores exactly the
\* completed rows in pending_clear with clear_flash_frames = 2; the
\* process_effects called at 2 leaves the board and pending_clear alone and
\* counts down to 1; the process_effects called at 1 removes the pending
\* rows; and between them only a lock or a command event can change the
\* board, pending_clear or the countdown.
C26_DeferredClear ==
    /\ [][(Locks /\ \E y \in 0..(BoardH - 1) : FullAfterWrite(y)) =>
            /\ \A x \in 0..(BoardW - 1), y \in 0..(BoardH - 1) :
                  \/ get(board', x, y) = get(board, x, y)
                  \/ \E i \in 1..Len(lock_flash_cells') : lock_flash_cells'[i] = <<x, y>>
                  \/ current_is_bomb /\ get(board', x, y) = Empty
            /\ lines_cleared' = lines_cleared
            /\ score' = score
            /\ clear_flash_frames' = 2
            /\ Len(pending_clear') > 0
            /\ \A y \in 0..(BoardH - 1) :
                  FullAfterWrite(y) <=> SeqContains(pending_clear', y)]_vars
    /\ [][(last_op'.op = "effects" /\ clear_flash_frames = 2) =>
            /\ board' = board
            /\ pending_clear' = pending_clear
            /\ lines_cleared' = lines_cleared
            /\ clear_flash_frames' = 1]_vars
    /\ [][(last_op'.op = "effects" /\ clear_flash_frames = 1 /\ pending_clear # <<>>) =>
            /\ Rows(board') = WithoutRows(board, pending_clear)
            /\ pending_clear' = <<>>
            /\ lines_cleared' = lines_cleared + Len(pending_clear)
            /\ clear_flash_frames' = 0]_vars
    /\ [][(last_op'.op \in {"move", "rotate"} \/ (last_op'.op \in {"tick", "drop"} /\ ~Locks)) =>
            /\ board' = board
            /\ pending_clear' = pending_clear
            /\ clear_flash_frames' = clear_flash_frames]_vars

\* C26 witness: a lock completed rows; the first process_effects left them
\* on the board and the second has just removed them.
C26_Witness ==
    /\ last_op.op = "effects"
    /\ since_lock # None
    /\ since_lock[1].full > 0
    /\ clear_flash_frames = 0
    /\ lock_flash_frames = 0
    /\ lines_cleared = since_lock[1].lines + since_lock[1].full
    /\ \A x \in 0..(BoardW - 1) : get(board, x, 0) = Empty

\* The step is the process_effects that performs the deferred clear.
PerformsClear ==
    last_op'.op = "effects" /\ clear_flash_frames = 1 /\ pending_clear # <<>>

\* The number of pending rows below row y.
PendingBelow(y) ==
    Cardinality({i \in 1..Len(pending_clear) : pending_clear[i] > y})

NearCells(cs, x, y) ==
    \E i \in 1..Len(cs) :
        /\ x - cs[i][1] \in {-1, 0, 1}
        /\ y - cs[i][2] \in {-1, 0, 1}

\* C28: after the lock of a bomb piece (its four cells are the lock-flash
\* cells the lock leaves) every board cell within the 3x3 neighbourhood of
\* one of the bomb's cells is Empty, the bomb's own cells included, and
\* every other cell is as it was before the lock.
C28_BombClear ==
    [][(current_is_bomb /\ Locks) =>
         /\ Len(lock_flash_cells') = 4
         /\ \A x \in 0..(BoardW - 1), y \in 0..(BoardH - 1) :
               IF NearCells(lock_flash_cells', x, y)
               THEN get(board', x, y) = Empty
               ELSE get(board', x, y) = get(board, x, y)]_vars

\* C28 witness: a bomb has just locked: the cells it was written on are
\* Empty again, and a Filled cell outside its neighbourhood is still there.
C28_Witness ==
    /\ last_op.op \in {"tick", "drop"}
    /\ lock_flash_frames = 1
    /\ Len(lock_flash_cells) = 4
    /\ \A i \in 1..Len(lock_flash_cells) :
          get(board, lock_flash_cells[i][1], lock_flash_cells[i][2]) = Empty
    /\ \E x \in 0..(BoardW - 1), y \in 0..(BoardH - 1) : IsFilled(get(board, x, y))

IdleSession ==
    SessionStart(
        SessionDrop(SessionDrop(SessionDrop(
            SessionRound(SessionRound(SessionRound(GameNew)))))),
        <<>>)

InitIdle ==
    /\ StartsAs(IdleSession)
    /\ events_left = MaxLoopLines
    /\ last_op = PlainOp("session")
    /\ since_lock = None
    /\ cmd_in = <<>>
    /\ chunks_out = command_to_chunks(<<>>)
    /\ WireIdle

\* 450 ms pass again and again while the loop runs, so the loop ends or
\* calls tick_gravity again and again.
GravityTicks == ([]<>(loop_pc = "done")) \/ ([]<><<LoopGravity /\ Tick>>_vars)

\* The steps of the loop between the drain and the input are taken once
\* they are due: weak fairness of each, which LoopRuns states for the loop
\* as a whole.
LoopFair == WF_vars(LoopDrained) /\ WF_vars(LoopDraw) /\ WF_vars(LoopEffects)

SpecIdle == InitIdle /\ [][NextLoop]_vars /\ LoopFair /\ LoopRuns /\ GravityTicks

\* The idle game that holds a bomb.
IdleWithBomb == ~game_over /\ ~active_piece /\ piece_queue = <<>> /\ bombs > 0

\* C30: an idle game that holds a bomb (no game over, no active piece, an
\* empty queue, bombs > 0) is woken by the loop alone: as long as run_loop
\* goes on with its gravity ticks and process_effects, a bomb piece
\* eventually is the active piece.
C30_BombWakesIdleGame ==
    IdleWithBomb ~> ((active_piece /\ current_is_bomb) \/ loop_pc = "done")

\* C31: at an End with a non-zero exit code and an identity that differs
\* from last_cmd_identity, the streak grows by 1, the meter loses 2 (not
\* below 0) as for a successful command, and the points added are
\* floor((10 + 3 * min(streak, 10)) / 2) with the streak after its increment
\* (the meter holds this total less the multiples of VARIETY_THRESH
\* converted).
C31_FailedAwardHalved ==
    [][(IsVarietyStep /\ last_op'.code # 0 /\ ~SameAsLast) =>
         /\ variety_streak' = variety_streak + 1
         /\ variety_meter' =
              (Max(variety_meter - 2, 0)
               + (10 + 3 * Min(variety_streak', 10)) \div 2) % VARIETY_THRESH]_vars

\* C31 witness: a failed End of a different identity earned the half of an
\* odd number of points.
C31_Witness ==
    /\ last_op.op = "end"
    /\ last_op.code # 0
    /\ last_op.id \in DOMAIN active_runs
    /\ variety_streak > 0
    /\ (10 + 3 * Min(variety_streak, 10)) % 2 = 1

(***************************************************************************)
(* The drain of run_loop in a new game: the listener reads MaxRepeatLines  *)
(* lines of LoopLines and the for loop over rx.try_iter() hands each event *)
(* to handle_command_event; applied is the history of the events handled.  *)
(***************************************************************************)
InitRepeat ==
    /\ StartsAs(GameNew)
    /\ events_left = MaxRepeatLines
    /\ last_op = PlainOp("new")
    /\ since_lock = None
    /\ cmd_in = <<>>
    /\ chunks_out = command_to_chunks(<<>>)
    /\ WireIdle

NextRepeat ==
    \/ Listener
    \/ LoopRecv

SpecRepeat == InitRepeat /\ [][NextRepeat]_vars

\* The identity of the run of id after the events evs: that of the last
\* Start of the id, None if there is none.
RECURSIVE RunIdentity(_, _)
RunIdentity(evs, id) ==
    IF evs = <<>> THEN None
    ELSE LET ev == evs[Len(evs)]
             before == SubSeq(evs, 1, Len(evs) - 1)
         IN IF ev.kind = "start" /\ ev.id = id
            THEN Some(command_identity(ev.command))
            ELSE RunIdentity(before, id)

\* The identity of the run that ended last in evs, None if no End of a
\* started run is in evs.
RECURSIVE LastEnded(_)
LastEnded(evs) ==
    IF evs = <<>> THEN None
    ELSE LET ev == evs[Len(evs)]
             before == SubSeq(evs, 1, Len(evs) - 1)
         IN IF ev.kind = "end" /\ RunIdentity(before, ev.id) # None
            THEN RunIdentity(before, ev.id)
            ELSE LastEnded(before)

\* The identity of the first command started in evs, None if there is none.
FirstStarted(evs) ==
    LET starts == SelectSeq(evs, LAMBDA ev : ev.kind = "start")
    IN IF starts = <<>> THEN None ELSE Some(command_identity(starts[1].command))

\* The loop hands an End of a started run to handle_command_event.
EndsKnownRun ==
    /\ applied' # applied
    /\ applied'[Len(applied')].kind = "end"
    /\ RunIdentity(applied, applied'[Len(applied')].id) # None

\* The End of the step was given the repeat penalty: streak 0, 5 off the
\* meter, no points, no bomb.
RepeatPenalty ==
    /\ variety_streak' = 0
    /\ variety_meter' = Max(variety_meter - 5, 0)
    /\ bombs' = bombs

\* C32 as stated: an End is given the repeat penalty only if the run that
\* ended last before it had the same identity; the first run to end in a
\* session is treated as distinct, its End takes the streak to 1 and earns
\* points.
C32_RepeatOfLastEnded ==
    [][EndsKnownRun =>
         LET identity == RunIdentity(applied, applied'[Len(applied')].id)
         IN /\ RepeatPenalty => LastEnded(applied) = identity
            /\ LastEnded(applied) = None =>
                 /\ variety_streak' = 1
                 /\ variety_meter' > variety_meter]_vars

\* C32 amended: last_cmd_identity is the identity of the run that ended
\* last, or, while no started run has ended, the identity of the first
\* command started; an End of a started run is given the repeat penalty
\* exactly when its run's identity equals that value, and otherwise raises
\* the streak by 1.  The first run to end is treated as distinct only when
\* its identity differs from that of the first command started.
C32_RepeatOfLastRecorded ==
    /\ [](last_cmd_identity =
            IF LastEnded(applied) # None THEN LastEnded(applied)
            ELSE FirstStarted(applied))
    /\ [][EndsKnownRun =>
            LET identity == RunIdentity(applied, applied'[Len(applied')].id)
                recorded == IF LastEnded(applied) # None THEN LastEnded(applied)
                            ELSE FirstStarted(applied)
            IN IF identity = recorded
               THEN RepeatPenalty
               ELSE variety_streak' = variety_streak + 1]_vars

\* C32 witness: the first End of the session ended the first command
\* started and was given the repeat penalty.
C32_Witness ==
    /\ Len(applied) = 2
    /\ applied[1].kind = "start"
    /\ applied[2].kind = "end"
    /\ last_op.op = "end"
    /\ variety_streak = 0
    /\ variety_meter = 0
    /\ last_cmd_identity = Some(command_identity(applied[1].command))

\* C33: tick_gravity and hard_drop leave the whole game as it is when
\* game_over is true or no piece is active: they do not lock the stale
\* current piece again and do not spawn.
C33_NoOpWhenOverOrIdle ==
    [][(last_op'.op \in {"tick", "drop"} /\ (game_over \/ ~active_piece)) =>
         G_next = G]_vars

\* C33 witness: hard_drop was called in a game that was over with the piece
\* that failed to spawn still marked active, and changed nothing.
C33_Witness ==
    /\ last_op.op = "drop"
    /\ last_op.was_over
    /\ game_over
    /\ active_piece
    /\ lock_flash_frames = 0

\* C34: in every state ghost_piece returns (its loop ends) the current piece
\* with the same shape, rotation, x and payload at a y >= current.y from
\* which the position one row lower cannot be placed; when the current
\* piece can be placed, so can the ghost and every position between the
\* two.  The call reads the game and changes none of it.
C34_GhostPiece ==
    LET ghost == ghost_piece(G)
    IN /\ ghost = [current EXCEPT !.y = ghost.y]
       /\ ghost.y >= current.y
       /\ ~can_place(G, shifted(ghost, 0, 1))
       /\ can_place(G, current) =>
            \A y \in current.y..ghost.y : can_place(G, [current EXCEPT !.y = y])

\* C34 witness: a piece is falling above a stack and its ghost lies below
\* it, on the stack and not on the floor.
C34_Witness ==
    /\ active_piece
    /\ ~game_over
    /\ can_place(G, current)
    /\ ghost_piece(G).y > current.y
    /\ can_place_on(NewBoard, shifted(ghost_piece(G), 0, 1))

\* The board b2 is the board b after an infection: every cell that differs
\* was Filled in b and holds the infected marker in b2, and the Filled
\* cells of b that hold the marker in b2 are enough, and the cells that
\* differ few enough, to be min(INFECT_MAX, number of Filled cells) cells
\* overwritten.
InfectedFrom(b, b2) ==
    LET filled == {i \in 1..Len(b) : IsFilled(b[i])}
        changed == {i \in 1..Len(b) : b2[i] # b[i]}
        marked == {i \in filled : b2[i] = InfectedCell}
        count == Min(INFECT_MAX, Cardinality(filled))
    IN /\ Len(b2) = Len(b)
       /\ changed \subseteq marked
       /\ Cardinality(changed) <= count
       /\ count <= Cardinality(marked)

\* C35: apply_infection, called by an End with a non-zero exit code on the
\* board the garbage row left, changes no cell's occupancy: the Filled
\* positions are the same before and after, Empty cells stay Empty, and
\* exactly min(5, number of Filled cells) distinct Filled cells have their
\* glyph pair overwritten with the infected marker.
C35_InfectionKeepsOccupancy ==
    [][(IsStep("end") /\ last_op'.code # 0) =>
         \E hole \in 0..(BoardW - 1) :
            LET b == apply_garbage_row(G, hole).board
            IN /\ InfectedFrom(b, board')
               /\ FilledCells(board') = FilledCells(b)]_vars

\* C35 witness: a failed End infected five of more than five Filled cells
\* and left a Filled cell with its own glyphs.
C35_Witness ==
    /\ last_op.op = "end"
    /\ last_op.code # 0
    /\ Cardinality(FilledCells(board)) > INFECT_MAX
    /\ Cardinality({c \in FilledCells(board) : get(board, c[1], c[2]) = InfectedCell})
         = INFECT_MAX

\* C36: in every reachable state each row index in pending_clear denotes a
\* row whose cells are all Filled, so every row the deferred clear removes
\* is full when it is removed, also when a garbage row or a bomb clear
\* came between the lock that recorded the rows and the clear.
C36_PendingRowsFull ==
    \A i \in 1..Len(pending_clear) :
        \A x \in 0..(BoardW - 1) : IsFilled(get(board, x, pending_clear[i]))

(***************************************************************************)
(* A game under gravity: the operations of Spec from a new game, where     *)
(* tick_gravity is called again and again: the loop calls it every 450 ms  *)
(* (app/mod.rs:50-53).  Stated on the steps that change the state: as long *)
(* as a piece is falling in a game that is not over, a tick takes place    *)
(* again and again.                                                        *)
(***************************************************************************)
TicksFair == ([]<>(game_over \/ ~active_piece)) \/ ([]<><<TickGravity>>_vars)

SpecQuiesce == Init /\ [][Next]_vars /\ TicksFair

\* No piece is active and the queue is empty.
Idle == ~active_piece /\ piece_queue = <<>>

\* C37: finitely many command events arrive; if every Start is followed by
\* the End of its id (no run stays live for ever) and the gravity ticks
\* keep occurring, the game reaches game_over or the idle state and stays
\* there, and from some point on no piece is spawned: active_piece, the
\* queue and bombs no longer change.
C37_Quiesces ==
    ([]<>(ActiveIds(active_runs) = {}))
    => /\ <>[](game_over \/ Idle)
       /\ <>[][UNCHANGED <<active_piece, piece_queue, bombs>>]_vars

\* C37 witness: a run was started and ended, the last event has been
\* handled, its pieces have locked, and a tick finds the game idle.
C37_Witness ==
    /\ events_left = 0
    /\ DOMAIN active_runs # {}
    /\ ActiveIds(active_runs) = {}
    /\ Idle
    /\ ~game_over
    /\ lines_cleared > 0
    /\ last_op.op = "tick"
    /\ last_op.popped = None

\* While rows are pending the countdown is running, and a process_effects
\* call takes one off it and performs the clear when it reaches 0.
CountdownRuns ==
    /\ [](pending_clear # <<>> => clear_flash_frames \in 1..2)
    /\ [][(last_op'.op = "effects" /\ pending_clear # <<>>) =>
            /\ clear_flash_frames' = clear_flash_frames - 1
            /\ clear_flash_frames' = 0 => pending_clear' = <<>>
            /\ clear_flash_frames' > 0 => pending_clear' = pending_clear]_vars

\* C38 as stated: a pending clear is performed within two process_effects
\* calls after the lock that first made its rows pending, also when further
\* pieces lock between those calls: the countdown runs and no other
\* operation sets it back while rows are pending.
C38_ClearWithinTwoCalls ==
    /\ CountdownRuns
    /\ [][(pending_clear # <<>> /\ last_op'.op # "effects") =>
            clear_flash_frames' <= clear_flash_frames]_vars

\* C38 amended: a pending clear is performed at the second process_effects
\* call after the last lock that found a full row: a lock that completes no
\* row, and every other operation, leaves pending_clear and the countdown
\* alone, while a lock that finds full rows stores them and restarts the
\* countdown at 2, which puts off the clear of rows that were pending
\* already.
C38_ClearAfterLastCompletingLock ==
    /\ CountdownRuns
    /\ [][(pending_clear # <<>> /\ last_op'.op # "effects") =>
            IF Locks /\ \E y \in 0..(BoardH - 1) : FullAfterWrite(y)
            THEN /\ clear_flash_frames' = 2
                 /\ pending_clear' # <<>>
            ELSE /\ clear_flash_frames' = clear_flash_frames
                 /\ pending_clear' = pending_clear]_vars

\* C38 witness: a piece has locked in one row and completed it while
\* another row was full and pending: both rows are pending and the countdown
\* is back at 2.
C38_Witness ==
    /\ last_op.op \in {"tick", "drop"}
    /\ lock_flash_frames = 1
    /\ Len(lock_flash_cells) = 4
    /\ \A i \in 1..4 : lock_flash_cells[i][2] = lock_flash_cells[1][2]
    /\ Len(pending_clear) = 2
    /\ clear_flash_frames = 2
    /\ C36_PendingRowsFull

\* C39: an End whose id has no recorded run (never started) leaves
\* variety_meter, variety_streak, bombs, last_cmd_identity, the run map and
\* the queue as they are; with exit code 0 it leaves the whole game as it
\* is.
C39_EndOfUnknownRun ==
    [][(IsStep("end") /\ last_op'.id \notin DOMAIN active_runs) =>
         /\ UNCHANGED <<variety_meter, variety_streak, bombs, last_cmd_identity,
                        active_runs, piece_queue>>
         /\ last_op'.code = 0 => G_next = G]_vars

\* C39 witness: an End with exit code 0 of an id that was never started has
\* been handled while another run was recorded and pieces were queued.
C39_Witness ==
    /\ last_op.op = "end"
    /\ last_op.code = 0
    /\ last_op.id \notin DOMAIN active_runs
    /\ DOMAIN active_runs # {}
    /\ piece_queue # <<>>
    /\ last_cmd_identity # None

\* The step hands a Start to handle_command_event.
StartIsHandled ==
    /\ last_op'.op = "start"
    /\ events_left' < events_left \/ applied' # applied

\* C40: a Start changes no board cell, nor score, lines_cleared,
\* pending_clear, the flash countdowns, bombs, variety_meter or
\* variety_streak, whether or not it spawns a piece; it can change only the
\* queue, the run map, last_cmd_identity when that is unset, the fields of
\* the current piece and game_over.
C40_StartFrame ==
    [][StartIsHandled =>
         /\ UNCHANGED <<board, score, lines_cleared, pending_clear,
                        clear_flash_frames, lock_flash_frames, lock_flash_cells,
                        bombs, variety_meter, variety_streak>>
         /\ last_cmd_identity # None => last_cmd_identity' = last_cmd_identity]_vars

====
